---- MODULE Spec2Model ----
(***************************************************************************)
(* Orchestration core of the Instagram scraper: the analysis buffer kept   *)
(* in a Redis list, the crawl worker and its job counters, the pool of     *)
(* browser sessions and the queue-backed login state machine.              *)
(***************************************************************************)
EXTENDS Integers, Sequences, FiniteSets, TLC

None == "none"

(***************************************************************************)
(* Bounds of the model                                                     *)
(***************************************************************************)
\* number of records the callers of addToBuffer append in one run
MaxRecords == 3
\* N, the records appended before the two drains of the lost-lock scenario
MaxBatch == 4
\* largest count handed to flushBuffer by the callers of the buffer run
MaxCount == 2

\* browser handles the pool creates in one run
MaxHandles == 3

\* second-factor codes a client submits in one run
MaxSubmits == 2

\* depth bound a crawl job may ask for
MaxDepth == 1
\* depth bound of the job whose units are followed by username alone
MaxVisitDepth == 2

\* event handlers of the crawl worker in flight at once in the general crawl
MaxInFlight == 2
\* thrown attempts (calls that throw, sessions that are gone) in one run
MaxFaults == 1
\* the history counters of checkAndCompleteJob stop counting here
MaxWrites == 2

\* attempts of the scrape queue's defaultJobOptions
Attempts == 3
\* the buffer size at which a unit triggers processBatch
BUFFER_THRESHOLD == 100

\* crawl jobs whose records share the one Redis list
Jobs == {"j1", "j2"}
\* callers of flushBuffer / flushBufferForJob that run side by side
Drainers == {"d1", "d2"}
\* session identities (keys of scraperPool and sessionLocks)
Sessions == {"s1", "s2"}
\* concurrent units of the crawl worker, which acquire and release scrapers
Workers == {"w1", "w2"}
WorkerOrder == <<"w1", "w2">>
\* callers of closeScraperForSession (the logout route)
Closers == {"lo"}
Callers == Workers \cup Closers
\* completed / failed event handlers of the crawl worker in flight at once
Handlers == {"h1", "h2", "h3"}
HandlerOrder == <<"h1", "h2", "h3">>
\* every caller of the buffer's drains
AllDrainers == Drainers \cup Handlers
\* the crawl job of the crawl model and the session it scrapes with
JobId == "j1"
SessionId == "s1"
\* usernames: the seed and the accounts its lists may name
Seed == "alice"
Connections == {"bob", "carol"}
Users == {Seed} \cup Connections
\* the (jobId-)username-depth identities of the scrape queue
Units == [username : Users, depth : 0..MaxDepth]
\* what scrapeFollowers / scrapeFollowing may return: lists without repeats
Lists == {<<>>, <<"bob">>, <<"carol">>, <<"bob", "carol">>, <<"carol", "bob">>}
\* auth job ids handed out by generateAuthJobId
AuthIds == {"a1"}
\* what a client types as the 6-digit code
Codes == {"right", "wrong"}

VARIABLES
    \* ---- aiAnalysisBuffer (Redis) ----
    buffer,      \* the list BUFFER_KEY: sequence of BufferedProfile
    lockKey,     \* TRUE iff the key BUFFER_LOCK_KEY exists
    nextRid,     \* identity given to the next appended record
    dpc,         \* position of each drain call
    dop,         \* the call: kind, count, jobId
    hasLock,     \* the call's local hasLock
    dgot,        \* the call's local profiles / jobProfiles
    drem,        \* flushBufferForJob's local remainingItems
    di,          \* flushBuffer's loop counter i
    returned,    \* history: how often each record was returned by a drain
    \* ---- scraper session pool ----
    scraperPool, \* session -> [scraper, inUse, aged] (NoEntry: no entry)
    sessionLocks,\* session -> None or the caller whose chained promise is stored
    lockPred,    \* caller -> the caller whose chained promise it awaits, or None
    cpc,         \* position of each caller of the pool
    csess,       \* the sessionId argument of the caller's call
    cheld,       \* the handle a caller got from getScraperForSession
    openHandles, \* browser handles created and not closed
    nextHandle,  \* identity given to the next handle created
    lockQueue,   \* history: session -> callers of acquireSessionLock that have not
                 \* called their release function yet, in the order of their calls
    closeAll,    \* closeAllScrapers: [pc, handles], the handles it is closing
    \* ---- auth queue and worker ----
    authState,           \* Redis auth:job:<id> -> [status, err] ("absent": no key)
    authQueue,           \* BullMQ job with that jobId -> [st, type, code]
    pendingAuthSessions, \* id -> the login's scraper is stored in the map
    cleanupTimers,       \* id -> "none", "armed" or "fired" (callback running)
    timerCb,             \* id -> position of the cleanup callback
    scraperOpen,         \* id -> the scraper made by the login job of id is open
    savedSessions,       \* ids for which saveSession created a Session record
    apc,                 \* position of the auth worker (concurrency 1)
    ajob,                \* authJobId of the job the worker is processing
    logins,              \* history: ids for which a login was submitted
    submits,             \* history: number of codes submitted
    lapsed,              \* history: ids whose handle the callback closed before any verify job began
    vstarted,            \* history: ids for which a verify-2fa job was started
    aAfterLapse,         \* history: the running verify job began after that
    rejected,            \* history: ids with a finished verify job whose code was rejected
    verdict,             \* history: id -> [out, after]: how the last verify job ended
    \* ---- crawl job, scrape queue and crawl worker ----
    job,            \* the Job document: [status, total, processed, failed]
    opts,           \* the job data every unit carries: maxDepth and the two flags
    queue,          \* unit -> [st, att]: the BullMQ job with that id
    wpc,            \* position of each of the worker's concurrent processors
    wunit,          \* the unit a processor is running
    wpriv,          \* profileData.isPrivate of the running unit
    wfl,            \* the processor's local followers
    wfg,            \* the processor's local following
    childJobs,      \* the processor's local childJobs, as [username, depth]
    hpc,            \* position of each event handler in flight
    hsnap,          \* the document findOne gave checkAndCompleteJob
    batchTriggered, \* a unit saw bufferSize >= BUFFER_THRESHOLD
    terminalWrites, \* history: terminal status writes of checkAndCompleteJob
    jobFlushes,     \* history: calls of processJobRemaining
    faults,         \* history: attempts that threw
    \* ---- DELETE /api/jobs/[id] ----
    cancelPc,       \* position of the cancel request: "idle" or "save"
    \* ---- batch analysis (aiAnalysisWorker.ts) ----
    bpc,              \* position of each call of processBatch / processJobRemaining
    bufferedProfiles, \* the call's local bufferedProfiles
    analysisResults,  \* the call's local analysisResults
    embeddingData,    \* the call's local embeddingData, as handed to the bulk call
    analysisCalls,    \* history: calls of analyzeAndUpdateProfilesBatch by the call
    embeddingCalls,   \* history: calls of createBulkProfileEmbeddings by the call
    persisted,        \* records whose Profile.updateOne of the call succeeded
    updateErrors,     \* records whose Profile.updateOne of the call threw
    \* ---- the units of one job down to depth MaxVisitDepth ----
    vqueue,           \* unit -> [st, att]: the BullMQ job with that id
    vscrapes,         \* history: username -> units of the job that scraped it
    \* ---- the crawl jobs of one session (POST /api/scrape) ----
    sjobs,            \* job id -> status of its Job document ("none": no document)
    sunit,            \* job id -> state of its seed unit in the queue
    rpc,              \* position of each POST /api/scrape request
    rexisting         \* the request's existingJob, or the id of the job it creates

bufVars == <<buffer, lockKey, nextRid, dpc, dop, hasLock, dgot, drem, di, returned>>

poolVars == <<scraperPool, sessionLocks, lockPred, cpc, csess, cheld, openHandles, nextHandle,
              lockQueue, closeAll>>

authVars == <<authState, authQueue, pendingAuthSessions, cleanupTimers, timerCb, scraperOpen,
              savedSessions, apc, ajob, logins, submits, lapsed, vstarted, aAfterLapse,
              rejected, verdict>>

crawlVars == <<job, opts, queue, wpc, wunit, wpriv, wfl, wfg, childJobs, hpc, hsnap,
               batchTriggered, terminalWrites, jobFlushes, faults>>

routeVars == <<cancelPc>>

batchVars == <<bpc, bufferedProfiles, analysisResults, embeddingData, analysisCalls,
               embeddingCalls, persisted, updateErrors>>

visitVars == <<vqueue, vscrapes>>

sessVars == <<sjobs, sunit, rpc, rexisting>>

vars == <<bufVars, poolVars, authVars, crawlVars, routeVars, batchVars, visitVars, sessVars>>

(***************************************************************************)
(* Analysis buffer                                                         *)
(***************************************************************************)
Rids == 1..(MaxBatch + 1)

NoOp == [kind |-> None, n |-> 0, job |-> None]

BufInit ==
    /\ buffer = <<>>
    /\ lockKey = FALSE
    /\ nextRid = 1
    /\ dpc = [d \in AllDrainers |-> "idle"]
    /\ dop = [d \in AllDrainers |-> NoOp]
    /\ hasLock = [d \in AllDrainers |-> FALSE]
    /\ dgot = [d \in AllDrainers |-> <<>>]
    /\ drem = [d \in AllDrainers |-> <<>>]
    /\ di = [d \in AllDrainers |-> 0]
    /\ returned = [r \in Rids |-> 0]

\* the elements of a sequence that satisfy / do not satisfy "belongs to job j",
\* in the order of the sequence (the for loop of flushBufferForJob)
RECURSIVE JobProfilesOf(_, _)
JobProfilesOf(items, j) ==
    IF items = <<>> THEN <<>>
    ELSE IF Head(items).jobId = j
         THEN <<Head(items)>> \o JobProfilesOf(Tail(items), j)
         ELSE JobProfilesOf(Tail(items), j)

RECURSIVE RemainingItemsOf(_, _)
RemainingItemsOf(items, j) ==
    IF items = <<>> THEN <<>>
    ELSE IF Head(items).jobId = j
         THEN RemainingItemsOf(Tail(items), j)
         ELSE <<Head(items)>> \o RemainingItemsOf(Tail(items), j)

\* addToBuffer: one RPUSH, no lock taken
addToBuffer(j) ==
    /\ buffer' = Append(buffer, [jobId |-> j, rid |-> nextRid])
    /\ nextRid' = nextRid + 1
    /\ UNCHANGED <<lockKey, dpc, dop, hasLock, dgot, drem, di, returned>>

\* a caller enters flushBuffer(count)
CallFlushBuffer(d, n) ==
    /\ dpc[d] = "idle"
    /\ dpc' = [dpc EXCEPT ![d] = "acquire"]
    /\ dop' = [dop EXCEPT ![d] = [kind |-> "upTo", n |-> n, job |-> None]]
    /\ UNCHANGED <<buffer, lockKey, nextRid, hasLock, dgot, drem, di, returned>>

\* a caller enters flushBufferForJob(jobId)
CallFlushBufferForJob(d, j) ==
    /\ dpc[d] = "idle"
    /\ dpc' = [dpc EXCEPT ![d] = "acquire"]
    /\ dop' = [dop EXCEPT ![d] = [kind |-> "forJob", n |-> 0, job |-> j]]
    /\ UNCHANGED <<buffer, lockKey, nextRid, hasLock, dgot, drem, di, returned>>

\* acquireLock as a bug would have it: the caller that did not get the key
\* goes on into the body instead of returning []
acquireLock_NoEarlyReturn(d) ==
    /\ dpc[d] = "acquire"
    /\ hasLock' = [hasLock EXCEPT ![d] = ~lockKey]
    /\ lockKey' = TRUE
    /\ dpc' = [dpc EXCEPT ![d] = IF dop[d].kind = "upTo" THEN "pop" ELSE "range"]
    /\ dgot' = [dgot EXCEPT ![d] = <<>>]
    /\ drem' = [drem EXCEPT ![d] = <<>>]
    /\ di' = [di EXCEPT ![d] = 0]
    /\ UNCHANGED <<buffer, nextRid, dop, returned>>

\* acquireLock: SET BUFFER_LOCK_KEY NX PX; a caller that does not get the key
\* returns [] at once
acquireLock(d) ==
    /\ dpc[d] = "acquire"
    /\ IF lockKey
       THEN /\ hasLock' = [hasLock EXCEPT ![d] = FALSE]
            /\ dpc' = [dpc EXCEPT ![d] = "done"]
            /\ UNCHANGED lockKey
       ELSE /\ hasLock' = [hasLock EXCEPT ![d] = TRUE]
            /\ lockKey' = TRUE
            /\ dpc' = [dpc EXCEPT ![d] = IF dop[d].kind = "upTo" THEN "pop" ELSE "range"]
    /\ dgot' = [dgot EXCEPT ![d] = <<>>]
    /\ drem' = [drem EXCEPT ![d] = <<>>]
    /\ di' = [di EXCEPT ![d] = 0]
    /\ UNCHANGED <<buffer, nextRid, dop, returned>>

\* the key expires LOCK_TTL_MS after it was set, whatever its holder is doing
LockExpire ==
    /\ lockKey
    /\ \E d \in AllDrainers : hasLock[d] /\ dpc[d] \in {"pop", "range", "exec", "release"}
    /\ lockKey' = FALSE
    /\ UNCHANGED <<buffer, nextRid, dpc, dop, hasLock, dgot, drem, di, returned>>

\* flushBuffer: one turn of the LPOP loop
FlushPop(d) ==
    /\ dpc[d] = "pop"
    /\ IF di[d] < dop[d].n /\ buffer # <<>>
       THEN /\ dgot' = [dgot EXCEPT ![d] = Append(@, Head(buffer))]
            /\ buffer' = Tail(buffer)
            /\ di' = [di EXCEPT ![d] = @ + 1]
            /\ UNCHANGED dpc
       ELSE /\ dpc' = [dpc EXCEPT ![d] = "release"]
            /\ UNCHANGED <<buffer, dgot, di>>
    /\ UNCHANGED <<lockKey, nextRid, dop, hasLock, drem, returned>>

\* flushBufferForJob: LRANGE 0 -1 and the partition of what it read
JobRange(d) ==
    /\ dpc[d] = "range"
    /\ dgot' = [dgot EXCEPT ![d] = JobProfilesOf(buffer, dop[d].job)]
    /\ drem' = [drem EXCEPT ![d] = RemainingItemsOf(buffer, dop[d].job)]
    /\ dpc' = [dpc EXCEPT ![d] =
                 IF Len(RemainingItemsOf(buffer, dop[d].job)) # Len(buffer)
                 THEN "exec" ELSE "release"]
    /\ UNCHANGED <<buffer, lockKey, nextRid, dop, hasLock, di, returned>>

\* flushBufferForJob: MULTI DEL BUFFER_KEY, RPUSH remainingItems, EXEC
JobExec(d) ==
    /\ dpc[d] = "exec"
    /\ buffer' = drem[d]
    /\ dpc' = [dpc EXCEPT ![d] = "release"]
    /\ UNCHANGED <<lockKey, nextRid, dop, hasLock, dgot, drem, di, returned>>

\* releaseLock in the finally block: DEL BUFFER_LOCK_KEY
releaseLock(d) ==
    /\ dpc[d] = "release"
    /\ lockKey' = FALSE
    /\ dpc' = [dpc EXCEPT ![d] = "done"]
    /\ UNCHANGED <<buffer, nextRid, dop, hasLock, dgot, drem, di, returned>>

RidsOf(s) == {s[i].rid : i \in 1..Len(s)}

CountIn(s, r) == Cardinality({i \in 1..Len(s) : s[i].rid = r})

\* the drain call hands its list to its caller
DrainReturn(d) ==
    /\ dpc[d] = "done"
    /\ returned' = [r \in Rids |-> returned[r] + CountIn(dgot[d], r)]
    /\ dpc' = [dpc EXCEPT ![d] = "idle"]
    /\ dop' = [dop EXCEPT ![d] = NoOp]
    /\ dgot' = [dgot EXCEPT ![d] = <<>>]
    /\ drem' = [drem EXCEPT ![d] = <<>>]
    /\ di' = [di EXCEPT ![d] = 0]
    /\ hasLock' = [hasLock EXCEPT ![d] = FALSE]
    /\ UNCHANGED <<buffer, lockKey, nextRid>>

DrainStep(d) ==
    \/ acquireLock(d)
    \/ FlushPop(d)
    \/ JobRange(d)
    \/ JobExec(d)
    \/ releaseLock(d)
    \/ DrainReturn(d)

(***************************************************************************)
(* Scraper session pool                                                    *)
(***************************************************************************)
\* no handle / the value of scraperPool.get for a key without entry
NoHandle == 0

NoEntry == [scraper |-> NoHandle, inUse |-> FALSE, aged |-> FALSE]

HasEntry(s) == scraperPool[s] # NoEntry

NotClosingAll == [pc |-> "idle", handles |-> {}]

PoolInit ==
    /\ scraperPool = [s \in Sessions |-> NoEntry]
    /\ sessionLocks = [s \in Sessions |-> None]
    /\ lockPred = [c \in Callers |-> None]
    /\ cpc = [c \in Callers |-> "idle"]
    /\ csess = [c \in Callers |-> None]
    /\ cheld = [c \in Callers |-> NoHandle]
    /\ openHandles = {}
    /\ nextHandle = 1
    /\ lockQueue = [s \in Sessions |-> <<>>]
    /\ closeAll = NotClosingAll

\* acquireSessionLock, up to its return: the caller chains its promise after
\* the stored one (or after a resolved one when none is stored) and stores it
acquireSessionLock(c, s, next) ==
    /\ lockPred' = [lockPred EXCEPT ![c] = sessionLocks[s]]
    /\ sessionLocks' = [sessionLocks EXCEPT ![s] = c]
    /\ csess' = [csess EXCEPT ![c] = s]
    /\ cpc' = [cpc EXCEPT ![c] = next]
    /\ lockQueue' = [lockQueue EXCEPT ![s] = Append(@, c)]
    /\ UNCHANGED closeAll

\* the promise the caller awaits has resolved
LockGranted(c) == lockPred[c] = None

\* the release function: resolves the caller's promise; whoever awaits the
\* chained promise of c goes on, and a stored chained promise of c is from
\* now on a resolved one
LocksAfterRelease(c, locks) == [s \in Sessions |-> IF locks[s] = c THEN None ELSE locks[s]]

PredAfterRelease(c) == [w \in Callers |-> IF lockPred[w] = c THEN None ELSE lockPred[w]]

\* the callers still between their call of acquireSessionLock and their
\* release, once c has released
QueueAfterRelease(c) == [s \in Sessions |-> SelectSeq(lockQueue[s], LAMBDA x : x # c)]

\* getScraperForSession is entered (first call, or the retry after the wait)
GetScraperCall(c, s) ==
    /\ cpc[c] \in {"idle", "retry"}
    /\ cpc[c] = "retry" => csess[c] = s
    /\ acquireSessionLock(c, s, "getLock")
    /\ UNCHANGED <<scraperPool, cheld, openHandles, nextHandle>>

\* lock granted, an idle entry exists: it is marked in use and handed out
GetScraperReuse(c) ==
    /\ cpc[c] = "getLock" /\ LockGranted(c)
    /\ HasEntry(csess[c]) /\ ~scraperPool[csess[c]].inUse
    /\ scraperPool' = [scraperPool EXCEPT ![csess[c]] =
                         [scraper |-> @.scraper, inUse |-> TRUE, aged |-> FALSE]]
    /\ cheld' = [cheld EXCEPT ![c] = scraperPool[csess[c]].scraper]
    /\ cpc' = [cpc EXCEPT ![c] = "using"]
    /\ sessionLocks' = LocksAfterRelease(c, sessionLocks)
    /\ lockPred' = PredAfterRelease(c)
    /\ lockQueue' = QueueAfterRelease(c)
    /\ UNCHANGED closeAll
    /\ UNCHANGED <<csess, openHandles, nextHandle>>

\* lock granted, the entry is in use: release the lock, wait, call again
GetScraperBusy(c) ==
    /\ cpc[c] = "getLock" /\ LockGranted(c)
    /\ HasEntry(csess[c]) /\ scraperPool[csess[c]].inUse
    /\ cpc' = [cpc EXCEPT ![c] = "retry"]
    /\ sessionLocks' = LocksAfterRelease(c, sessionLocks)
    /\ lockPred' = PredAfterRelease(c)
    /\ lockQueue' = QueueAfterRelease(c)
    /\ UNCHANGED closeAll
    /\ UNCHANGED <<scraperPool, csess, cheld, openHandles, nextHandle>>

\* lock granted, no entry: getSession is awaited with the lock held
GetScraperLookup(c) ==
    /\ cpc[c] = "getLock" /\ LockGranted(c)
    /\ ~HasEntry(csess[c])
    /\ cpc' = [cpc EXCEPT ![c] = "getSession"]
    /\ UNCHANGED <<scraperPool, sessionLocks, lockPred, csess, cheld, openHandles, nextHandle,
                   lockQueue, closeAll>>

\* the null return without the finally block: the lock is kept
GetScraperNoSession_KeepsLock(c) ==
    /\ cpc[c] = "getSession"
    /\ cpc' = [cpc EXCEPT ![c] = "idle"]
    /\ csess' = [csess EXCEPT ![c] = None]
    /\ UNCHANGED <<scraperPool, sessionLocks, lockPred, cheld, openHandles, nextHandle,
                   lockQueue, closeAll>>

\* getSession reports no valid session or no cookies: return null
GetScraperNoSession(c) ==
    /\ cpc[c] = "getSession"
    /\ cpc' = [cpc EXCEPT ![c] = "idle"]
    /\ csess' = [csess EXCEPT ![c] = None]
    /\ sessionLocks' = LocksAfterRelease(c, sessionLocks)
    /\ lockPred' = PredAfterRelease(c)
    /\ lockQueue' = QueueAfterRelease(c)
    /\ UNCHANGED closeAll
    /\ UNCHANGED <<scraperPool, cheld, openHandles, nextHandle>>

\* getSession reports a valid session: new InstagramScraper(), init awaited
GetScraperInit(c) ==
    /\ cpc[c] = "getSession"
    /\ cpc' = [cpc EXCEPT ![c] = "init"]
    /\ UNCHANGED <<scraperPool, sessionLocks, lockPred, csess, cheld, openHandles, nextHandle,
                   lockQueue, closeAll>>

\* init is over: the new handle is stored in use and handed out
GetScraperCreate(c) ==
    /\ cpc[c] = "init"
    /\ nextHandle <= MaxHandles
    /\ openHandles' = openHandles \cup {nextHandle}
    /\ nextHandle' = nextHandle + 1
    /\ scraperPool' = [scraperPool EXCEPT ![csess[c]] =
                         [scraper |-> nextHandle, inUse |-> TRUE, aged |-> FALSE]]
    /\ cheld' = [cheld EXCEPT ![c] = nextHandle]
    /\ cpc' = [cpc EXCEPT ![c] = "using"]
    /\ sessionLocks' = LocksAfterRelease(c, sessionLocks)
    /\ lockPred' = PredAfterRelease(c)
    /\ lockQueue' = QueueAfterRelease(c)
    /\ UNCHANGED closeAll
    /\ UNCHANGED csess

\* a release that marks the entry of every session idle
releaseScraperForSession_AllEntries(c) ==
    /\ cpc[c] = "using"
    /\ scraperPool' = [s \in Sessions |->
                         IF ~HasEntry(s) THEN scraperPool[s]
                         ELSE [scraper |-> scraperPool[s].scraper, inUse |-> FALSE,
                               aged |-> FALSE]]
    /\ cpc' = [cpc EXCEPT ![c] = "idle"]
    /\ csess' = [csess EXCEPT ![c] = None]
    /\ cheld' = [cheld EXCEPT ![c] = NoHandle]
    /\ UNCHANGED <<sessionLocks, lockPred, openHandles, nextHandle,
                   lockQueue, closeAll>>

\* releaseScraperForSession, called by the holder when its unit is over
releaseScraperForSession(c) ==
    /\ cpc[c] = "using"
    /\ scraperPool' = IF ~HasEntry(csess[c]) THEN scraperPool
                      ELSE [scraperPool EXCEPT ![csess[c]] =
                              [scraper |-> @.scraper, inUse |-> FALSE, aged |-> FALSE]]
    /\ cpc' = [cpc EXCEPT ![c] = "idle"]
    /\ csess' = [csess EXCEPT ![c] = None]
    /\ cheld' = [cheld EXCEPT ![c] = NoHandle]
    /\ UNCHANGED <<sessionLocks, lockPred, openHandles, nextHandle,
                   lockQueue, closeAll>>

\* closeScraperForSession is entered
CloseScraperCall(c, s) ==
    /\ cpc[c] = "idle"
    /\ acquireSessionLock(c, s, "closeLock")
    /\ UNCHANGED <<scraperPool, cheld, openHandles, nextHandle>>

\* lock granted, an entry exists: its scraper's close() is awaited
CloseScraperClosing(c) ==
    /\ cpc[c] = "closeLock" /\ LockGranted(c)
    /\ HasEntry(csess[c])
    /\ cheld' = [cheld EXCEPT ![c] = scraperPool[csess[c]].scraper]
    /\ cpc' = [cpc EXCEPT ![c] = "closing"]
    /\ UNCHANGED <<scraperPool, sessionLocks, lockPred, csess, openHandles, nextHandle,
                   lockQueue, closeAll>>

\* the end of closeScraperForSession: the entry (if one was found) is closed
\* and deleted, the lock released and the stored promise deleted
CloseScraperDone(c) ==
    /\ \/ cpc[c] = "closing"
       \/ cpc[c] = "closeLock" /\ LockGranted(c) /\ ~HasEntry(csess[c])
    /\ openHandles' = openHandles \ {cheld[c]}
    /\ scraperPool' = IF cpc[c] = "closing"
                      THEN [scraperPool EXCEPT ![csess[c]] = NoEntry] ELSE scraperPool
    /\ sessionLocks' = [LocksAfterRelease(c, sessionLocks) EXCEPT ![csess[c]] = None]
    /\ lockPred' = PredAfterRelease(c)
    /\ lockQueue' = QueueAfterRelease(c)
    /\ UNCHANGED closeAll
    /\ cpc' = [cpc EXCEPT ![c] = "idle"]
    /\ csess' = [csess EXCEPT ![c] = None]
    /\ cheld' = [cheld EXCEPT ![c] = NoHandle]
    /\ UNCHANGED nextHandle

\* more than MAX_SCRAPER_AGE passes since the entry's lastUsed
EntryAges(s) ==
    /\ HasEntry(s) /\ ~scraperPool[s].aged
    /\ scraperPool' = [scraperPool EXCEPT ![s] =
                         [scraper |-> @.scraper, inUse |-> @.inUse, aged |-> TRUE]]
    /\ UNCHANGED <<sessionLocks, lockPred, cpc, csess, cheld, openHandles, nextHandle,
                   lockQueue, closeAll>>

Swept(s) == HasEntry(s) /\ ~scraperPool[s].inUse /\ scraperPool[s].aged

\* one run of the setInterval callback over the whole pool
CleanupSweep ==
    /\ \E s \in Sessions : Swept(s)
    /\ openHandles' = openHandles \ {scraperPool[s].scraper : s \in {t \in Sessions : Swept(t)}}
    /\ scraperPool' = [s \in Sessions |-> IF Swept(s) THEN NoEntry ELSE scraperPool[s]]
    /\ sessionLocks' = [s \in Sessions |-> IF Swept(s) THEN None ELSE sessionLocks[s]]
    /\ UNCHANGED <<lockPred, cpc, csess, cheld, nextHandle,
                   lockQueue, closeAll>>

\* closeAllScrapers: close() is called on the scraper of every entry and the
\* promises are awaited
CloseAllStart ==
    /\ closeAll.pc = "idle"
    /\ closeAll' = [pc |-> "closing",
                    handles |-> {scraperPool[s].scraper : s \in {t \in Sessions : HasEntry(t)}}]
    /\ UNCHANGED <<scraperPool, sessionLocks, lockPred, cpc, csess, cheld, openHandles,
                   nextHandle, lockQueue>>

\* closeAllScrapers: the scrapers are closed; both maps are cleared
CloseAllDone ==
    /\ closeAll.pc = "closing"
    /\ openHandles' = openHandles \ closeAll.handles
    /\ scraperPool' = [s \in Sessions |-> NoEntry]
    /\ sessionLocks' = [s \in Sessions |-> None]
    /\ closeAll' = NotClosingAll
    /\ UNCHANGED <<lockPred, cpc, csess, cheld, nextHandle, lockQueue>>

(***************************************************************************)
(* Auth queue (authQueue.ts) and auth worker (authWorker.ts)               *)
(***************************************************************************)
NoJob == [st |-> "none", type |-> None, code |-> None]

Absent == [status |-> "absent", err |-> None]

AuthInit ==
    /\ authState = [a \in AuthIds |-> Absent]
    /\ authQueue = [a \in AuthIds |-> NoJob]
    /\ pendingAuthSessions = [a \in AuthIds |-> FALSE]
    /\ cleanupTimers = [a \in AuthIds |-> "none"]
    /\ timerCb = [a \in AuthIds |-> "idle"]
    /\ scraperOpen = [a \in AuthIds |-> FALSE]
    /\ savedSessions = {}
    /\ apc = "idle"
    /\ ajob = None
    /\ logins = {}
    /\ submits = 0
    /\ lapsed = {}
    /\ vstarted = {}
    /\ aAfterLapse = FALSE
    /\ rejected = {}
    /\ verdict = [a \in AuthIds |-> [out |-> None, after |-> FALSE]]

\* setAuthJobState: SET key EX AUTH_JOB_TTL
setAuthJobState(a, status, err) == authState' = [authState EXCEPT ![a] = [status |-> status, err |-> err]]

\* queue.add with jobId = authJobId: ignored while a job with that id is kept
QueueAdd(a, type, code) ==
    authQueue' = IF authQueue[a].st = "none"
                 THEN [authQueue EXCEPT ![a] = [st |-> "waiting", type |-> type, code |-> code]]
                 ELSE authQueue

\* addAuthJob: the pending state record is written, then the job is added
addAuthJob(a, type, code) ==
    /\ setAuthJobState(a, "pending", None)
    /\ QueueAdd(a, type, code)

\* the job the worker holds ends: returned (completed) or thrown (failed)
JobEnds(how) ==
    /\ authQueue' = [authQueue EXCEPT ![ajob] = [@ EXCEPT !.st = how]]
    /\ apc' = "idle"
    /\ ajob' = None

\* cancelSessionCleanup: clearTimeout and delete the entry, if there is one
cancelSessionCleanup(a) == cleanupTimers' = [cleanupTimers EXCEPT ![a] = "none"]

\* POST /api/auth/instagram: a login under a fresh auth job id
SubmitLogin(a) ==
    /\ a \notin logins
    /\ logins' = logins \cup {a}
    /\ addAuthJob(a, "login", None)
    /\ UNCHANGED <<pendingAuthSessions, cleanupTimers, timerCb, scraperOpen, savedSessions, apc,
                   ajob, submits, lapsed, vstarted, aAfterLapse, rejected, verdict>>

\* POST /api/auth/verify-2fa: a code for the auth job id of an earlier login
SubmitCode(a, code) ==
    /\ a \in logins
    /\ submits < MaxSubmits
    /\ submits' = submits + 1
    /\ addAuthJob(a, "verify-2fa", code)
    /\ UNCHANGED <<pendingAuthSessions, cleanupTimers, timerCb, scraperOpen, savedSessions, apc,
                   ajob, logins, lapsed, vstarted, aAfterLapse, rejected, verdict>>

\* removeOnComplete / removeOnFail: a finished job leaves the queue by count or age
RemoveRetained(a) ==
    /\ authQueue[a].st \in {"completed", "failed"}
    /\ authQueue' = [authQueue EXCEPT ![a] = NoJob]
    /\ UNCHANGED <<authState, pendingAuthSessions, cleanupTimers, timerCb, scraperOpen,
                   savedSessions, apc, ajob, logins, submits, lapsed, vstarted, aAfterLapse,
                   rejected, verdict>>

\* the state record outlives AUTH_JOB_TTL since its last write
AuthStateExpire(a) ==
    /\ authState[a] # Absent
    /\ authState' = [authState EXCEPT ![a] = Absent]
    /\ UNCHANGED <<authQueue, pendingAuthSessions, cleanupTimers, timerCb, scraperOpen,
                   savedSessions, apc, ajob, logins, submits, lapsed, vstarted, aAfterLapse,
                   rejected, verdict>>

\* the worker takes the next waiting job
AuthDequeue(a) ==
    /\ apc = "idle"
    /\ authQueue[a].st = "waiting"
    /\ authQueue' = [authQueue EXCEPT ![a] = [@ EXCEPT !.st = "active"]]
    /\ ajob' = a
    /\ apc' = IF authQueue[a].type = "login" THEN "l_get" ELSE "v_lookup"
    /\ UNCHANGED <<authState, pendingAuthSessions, cleanupTimers, timerCb, scraperOpen,
                   savedSessions, logins, submits, lapsed, vstarted, aAfterLapse, rejected,
                   verdict>>

\* processLoginJob: getAuthJobState, throw when there is no record
LoginGetState ==
    /\ apc = "l_get"
    /\ IF authState[ajob] = Absent
       THEN JobEnds("failed")
       ELSE apc' = "l_setProcessing" /\ UNCHANGED <<authQueue, ajob>>
    /\ UNCHANGED <<authState, pendingAuthSessions, cleanupTimers, timerCb, scraperOpen,
                   savedSessions, logins, submits, lapsed, vstarted, aAfterLapse, rejected,
                   verdict>>

LoginSetProcessing ==
    /\ apc = "l_setProcessing"
    /\ setAuthJobState(ajob, "processing", None)
    /\ apc' = "l_login"
    /\ UNCHANGED <<authQueue, pendingAuthSessions, cleanupTimers, timerCb, scraperOpen,
                   savedSessions, ajob, logins, submits, lapsed, vstarted, aAfterLapse,
                   rejected, verdict>>

\* init and login; on requires2FA the scraper is stored and the timer armed
LoginRequires2FA ==
    /\ apc = "l_login"
    /\ scraperOpen' = [scraperOpen EXCEPT ![ajob] = TRUE]
    /\ pendingAuthSessions' = [pendingAuthSessions EXCEPT ![ajob] = TRUE]
    /\ cleanupTimers' = [cleanupTimers EXCEPT ![ajob] = "armed"]
    /\ apc' = "l_setWaiting"
    /\ UNCHANGED <<authState, authQueue, timerCb, savedSessions, ajob, logins, submits, lapsed,
                   vstarted, aAfterLapse, rejected, verdict>>

\* init and login; login failed or threw: the scraper is closed
LoginFails ==
    /\ apc = "l_login"
    /\ apc' = "l_setFailed"
    /\ UNCHANGED <<authState, authQueue, pendingAuthSessions, cleanupTimers, timerCb,
                   scraperOpen, savedSessions, ajob, logins, submits, lapsed, vstarted,
                   aAfterLapse, rejected, verdict>>

\* init and login; login succeeded: saveSession, the scraper is closed
LoginSucceeds ==
    /\ apc = "l_login"
    /\ savedSessions' = savedSessions \cup {ajob}
    /\ apc' = "l_setCompleted"
    /\ UNCHANGED <<authState, authQueue, pendingAuthSessions, cleanupTimers, timerCb,
                   scraperOpen, ajob, logins, submits, lapsed, vstarted, aAfterLapse,
                   rejected, verdict>>

\* the setAuthJobState of the requires2FA branch throws: the catch block
\* closes the scraper and writes failed; the entry stored in
\* pendingAuthSessions and its timer are left as they are
LoginSetStateThrows ==
    /\ apc = "l_setWaiting"
    /\ scraperOpen' = [scraperOpen EXCEPT ![ajob] = FALSE]
    /\ setAuthJobState(ajob, "failed", "error")
    /\ JobEnds("completed")
    /\ UNCHANGED <<pendingAuthSessions, cleanupTimers, timerCb, savedSessions, logins, submits,
                   lapsed, vstarted, aAfterLapse, rejected, verdict>>

\* the last setAuthJobState of processLoginJob
LoginSetState ==
    /\ apc \in {"l_setWaiting", "l_setFailed", "l_setCompleted"}
    /\ setAuthJobState(ajob,
          CASE apc = "l_setWaiting" -> "waiting_2fa"
            [] apc = "l_setFailed" -> "failed"
            [] OTHER -> "completed",
          IF apc = "l_setFailed" THEN "login" ELSE None)
    /\ JobEnds("completed")
    /\ UNCHANGED <<pendingAuthSessions, cleanupTimers, timerCb, scraperOpen, savedSessions,
                   logins, submits, lapsed, vstarted, aAfterLapse, rejected, verdict>>

\* process2FAJob: pendingAuthSessions.get
VerifyLookup ==
    /\ apc = "v_lookup"
    /\ apc' = IF pendingAuthSessions[ajob] THEN "v_get" ELSE "x_get"
    /\ vstarted' = vstarted \cup {ajob}
    /\ aAfterLapse' = (ajob \in lapsed)
    /\ UNCHANGED <<authState, authQueue, pendingAuthSessions, cleanupTimers, timerCb,
                   scraperOpen, savedSessions, ajob, logins, submits, lapsed, rejected, verdict>>

\* the "2FA session expired" path: getAuthJobState
ExpiredGetState ==
    /\ apc = "x_get"
    /\ IF authState[ajob] = Absent
       THEN /\ verdict' = [verdict EXCEPT ![ajob] = [out |-> "nostate", after |-> aAfterLapse]]
            /\ JobEnds("completed")
       ELSE /\ apc' = "x_set"
            /\ UNCHANGED <<authQueue, ajob, verdict>>
    /\ UNCHANGED <<authState, pendingAuthSessions, cleanupTimers, timerCb, scraperOpen,
                   savedSessions, logins, submits, lapsed, vstarted, aAfterLapse, rejected>>

\* the "2FA session expired" path ending without a write of the status
ExpiredSetState_NoWrite ==
    /\ apc = "x_set"
    /\ verdict' = [verdict EXCEPT ![ajob] = [out |-> "expired", after |-> aAfterLapse]]
    /\ JobEnds("completed")
    /\ UNCHANGED <<authState, pendingAuthSessions, cleanupTimers, timerCb, scraperOpen,
                   savedSessions, logins, submits, lapsed, vstarted, aAfterLapse, rejected>>

\* the "2FA session expired" path: status failed
ExpiredSetState ==
    /\ apc = "x_set"
    /\ setAuthJobState(ajob, "failed", "expired")
    /\ verdict' = [verdict EXCEPT ![ajob] = [out |-> "expired", after |-> aAfterLapse]]
    /\ JobEnds("completed")
    /\ UNCHANGED <<pendingAuthSessions, cleanupTimers, timerCb, scraperOpen, savedSessions,
                   logins, submits, lapsed, vstarted, aAfterLapse, rejected>>

\* a scraper was found: getAuthJobState, clean up and throw when no record
VerifyGetState ==
    /\ apc = "v_get"
    /\ IF authState[ajob] = Absent
       THEN /\ scraperOpen' = [scraperOpen EXCEPT ![ajob] = FALSE]
            /\ pendingAuthSessions' = [pendingAuthSessions EXCEPT ![ajob] = FALSE]
            /\ cancelSessionCleanup(ajob)
            /\ verdict' = [verdict EXCEPT ![ajob] = [out |-> "thrown", after |-> aAfterLapse]]
            /\ JobEnds("failed")
       ELSE /\ apc' = "v_setProcessing"
            /\ UNCHANGED <<authQueue, ajob, scraperOpen, pendingAuthSessions, cleanupTimers,
                           verdict>>
    /\ UNCHANGED <<authState, timerCb, savedSessions, logins, submits, lapsed, vstarted,
                   aAfterLapse, rejected>>

VerifySetProcessing ==
    /\ apc = "v_setProcessing"
    /\ setAuthJobState(ajob, "processing", None)
    /\ apc' = "v_verify"
    /\ UNCHANGED <<authQueue, pendingAuthSessions, cleanupTimers, timerCb, scraperOpen,
                   savedSessions, ajob, logins, submits, lapsed, vstarted, aAfterLapse,
                   rejected, verdict>>

\* scraper.verify2FA is called: it throws at once on a closed scraper
VerifyCall ==
    /\ apc = "v_verify"
    /\ apc' = IF scraperOpen[ajob] THEN "v_verifying" ELSE "v_catch"
    /\ UNCHANGED <<authState, authQueue, pendingAuthSessions, cleanupTimers, timerCb,
                   scraperOpen, savedSessions, ajob, logins, submits, lapsed, vstarted,
                   aAfterLapse, rejected, verdict>>

\* scraper.verify2FA returns: success for the right code on an open scraper
VerifyReturns ==
    /\ apc = "v_verifying"
    /\ apc' = IF scraperOpen[ajob] /\ authQueue[ajob].code = "right"
              THEN "v_save" ELSE "v_setRejected"
    /\ UNCHANGED <<authState, authQueue, pendingAuthSessions, cleanupTimers, timerCb,
                   scraperOpen, savedSessions, ajob, logins, submits, lapsed, vstarted,
                   aAfterLapse, rejected, verdict>>

\* success: saveSession, delete the entry, cancel the timer, close the scraper
VerifySave ==
    /\ apc = "v_save"
    /\ savedSessions' = savedSessions \cup {ajob}
    /\ pendingAuthSessions' = [pendingAuthSessions EXCEPT ![ajob] = FALSE]
    /\ cancelSessionCleanup(ajob)
    /\ scraperOpen' = [scraperOpen EXCEPT ![ajob] = FALSE]
    /\ apc' = "v_setCompleted"
    /\ UNCHANGED <<authState, authQueue, timerCb, ajob, logins, submits, lapsed, vstarted,
                   aAfterLapse, rejected, verdict>>

VerifySetCompleted ==
    /\ apc = "v_setCompleted"
    /\ setAuthJobState(ajob, "completed", None)
    /\ verdict' = [verdict EXCEPT ![ajob] = [out |-> "completed", after |-> aAfterLapse]]
    /\ JobEnds("completed")
    /\ UNCHANGED <<pendingAuthSessions, cleanupTimers, timerCb, scraperOpen, savedSessions,
                   logins, submits, lapsed, vstarted, aAfterLapse, rejected>>

\* rejected code: status back to waiting_2fa, nothing else is touched
VerifySetRejected ==
    /\ apc = "v_setRejected"
    /\ setAuthJobState(ajob, "waiting_2fa", "invalid_code")
    /\ rejected' = rejected \cup {ajob}
    /\ verdict' = [verdict EXCEPT ![ajob] = [out |-> "rejected", after |-> aAfterLapse]]
    /\ JobEnds("completed")
    /\ UNCHANGED <<pendingAuthSessions, cleanupTimers, timerCb, scraperOpen, savedSessions,
                   logins, submits, lapsed, vstarted, aAfterLapse>>

\* the catch block: status failed, entry deleted, timer cancelled, scraper closed
VerifyCatch ==
    /\ apc = "v_catch"
    /\ setAuthJobState(ajob, "failed", "error")
    /\ pendingAuthSessions' = [pendingAuthSessions EXCEPT ![ajob] = FALSE]
    /\ cancelSessionCleanup(ajob)
    /\ scraperOpen' = [scraperOpen EXCEPT ![ajob] = FALSE]
    /\ verdict' = [verdict EXCEPT ![ajob] = [out |-> "error", after |-> aAfterLapse]]
    /\ JobEnds("completed")
    /\ UNCHANGED <<timerCb, savedSessions, logins, submits, lapsed, vstarted, aAfterLapse,
                   rejected>>

\* the setTimeout callback of scheduleSessionCleanup starts
TimerFires(a) ==
    /\ cleanupTimers[a] = "armed"
    /\ IF pendingAuthSessions[a]
       THEN /\ timerCb' = [timerCb EXCEPT ![a] = "closing"]
            /\ cleanupTimers' = [cleanupTimers EXCEPT ![a] = "fired"]
       ELSE /\ cleanupTimers' = [cleanupTimers EXCEPT ![a] = "none"]
            /\ UNCHANGED timerCb
    /\ UNCHANGED <<authState, authQueue, pendingAuthSessions, scraperOpen, savedSessions, apc,
                   ajob, logins, submits, lapsed, vstarted, aAfterLapse, rejected, verdict>>

\* the callback closing the scraper but leaving it in pendingAuthSessions
TimerCloses_KeepsEntry(a) ==
    /\ timerCb[a] = "closing"
    /\ scraperOpen' = [scraperOpen EXCEPT ![a] = FALSE]
    /\ cleanupTimers' = [cleanupTimers EXCEPT ![a] = "none"]
    /\ timerCb' = [timerCb EXCEPT ![a] = "idle"]
    /\ lapsed' = IF a \in vstarted THEN lapsed ELSE lapsed \cup {a}
    /\ UNCHANGED <<authState, authQueue, pendingAuthSessions, savedSessions, apc, ajob, logins,
                   submits, vstarted, aAfterLapse, rejected, verdict>>

\* pendingScraper.close() is over: the entry and the timer are deleted
TimerCloses(a) ==
    /\ timerCb[a] = "closing"
    /\ scraperOpen' = [scraperOpen EXCEPT ![a] = FALSE]
    /\ pendingAuthSessions' = [pendingAuthSessions EXCEPT ![a] = FALSE]
    /\ cleanupTimers' = [cleanupTimers EXCEPT ![a] = "none"]
    /\ timerCb' = [timerCb EXCEPT ![a] = "idle"]
    /\ lapsed' = IF a \in vstarted THEN lapsed ELSE lapsed \cup {a}
    /\ UNCHANGED <<authState, authQueue, savedSessions, apc, ajob, logins, submits, vstarted,
                   aAfterLapse, rejected, verdict>>

(***************************************************************************)
(* Crawl job (scrape route), scrape queue and crawl worker (worker.ts)     *)
(***************************************************************************)
NoScrape == [status |-> "none", total |-> 0, processed |-> 0, failed |-> 0]

NoOpts == [maxDepth |-> 0, scrapeFollowers |-> FALSE, scrapeFollowing |-> FALSE]

NoUnit == [username |-> None, depth |-> 0]

NotQueued == [st |-> "none", att |-> 0]

CrawlInit ==
    /\ job = NoScrape
    /\ opts = NoOpts
    /\ queue = [u \in Units |-> NotQueued]
    /\ wpc = [w \in Workers |-> "idle"]
    /\ wunit = [w \in Workers |-> NoUnit]
    /\ wpriv = [w \in Workers |-> FALSE]
    /\ wfl = [w \in Workers |-> <<>>]
    /\ wfg = [w \in Workers |-> <<>>]
    /\ childJobs = [w \in Workers |-> <<>>]
    /\ hpc = [h \in Handlers |-> "idle"]
    /\ hsnap = [h \in Handlers |-> NoScrape]
    /\ batchTriggered = FALSE
    /\ terminalWrites = 0
    /\ jobFlushes = 0
    /\ faults = 0

\* queue.add / addBulk entry with a custom jobId: ignored while a job with
\* that id exists
QueueWith(q, u) == IF q[u].st = "none" THEN [q EXCEPT ![u] = [st |-> "waiting", att |-> 0]] ELSE q

RECURSIVE QueueWithAll(_, _)
QueueWithAll(q, children) ==
    IF children = <<>> THEN q
    ELSE QueueWithAll(QueueWith(q, Head(children)), Tail(children))

\* POST /api/scrape: Job.create with totalProfiles 1, then the seed unit
CreateJob(seed, maxDepth, followers, following) ==
    /\ job.status = "none"
    /\ job' = [status |-> "pending", total |-> 1, processed |-> 0, failed |-> 0]
    /\ opts' = [maxDepth |-> maxDepth, scrapeFollowers |-> followers, scrapeFollowing |-> following]
    /\ queue' = QueueWith(queue, [username |-> seed, depth |-> 0])
    /\ UNCHANGED <<wpc, wunit, wpriv, wfl, wfg, childJobs, hpc, hsnap, batchTriggered,
                   terminalWrites, jobFlushes, faults>>

\* a processor of the worker takes a waiting unit: status "processing" is
\* written, then getScraperForSession is entered
StartUnit(w, u) ==
    /\ wpc[w] = "idle"
    /\ queue[u].st = "waiting"
    /\ queue' = [queue EXCEPT ![u] = [@ EXCEPT !.st = "active"]]
    /\ wunit' = [wunit EXCEPT ![w] = u]
    /\ job' = [job EXCEPT !.status = "processing"]
    /\ wpc' = [wpc EXCEPT ![w] = "scraper"]
    /\ GetScraperCall(w, SessionId)
    /\ UNCHANGED <<opts, wpriv, wfl, wfg, childJobs, hpc, hsnap, batchTriggered,
                   terminalWrites, jobFlushes, faults>>

\* getScraperForSession gave null: "Session not found or expired" is thrown
SessionMissing(w) ==
    /\ wpc[w] = "scraper"
    /\ GetScraperNoSession(w)
    /\ wpc' = [wpc EXCEPT ![w] = "throw"]
    /\ faults' = faults + 1
    /\ UNCHANGED <<job, opts, queue, wunit, wpriv, wfl, wfg, childJobs, hpc, hsnap,
                   batchTriggered, terminalWrites, jobFlushes>>

\* scraper.scrapeProfile gives null, counted as processed as well as failed
ProfileNotFound_AlsoProcessed(w) ==
    /\ wpc[w] = "scraper"
    /\ cpc[w] = "using"
    /\ job' = [job EXCEPT !.failed = @ + 1, !.processed = @ + 1]
    /\ wpc' = [wpc EXCEPT ![w] = "return"]
    /\ UNCHANGED <<opts, queue, wunit, wpriv, wfl, wfg, childJobs, hpc, hsnap, batchTriggered,
                   terminalWrites, jobFlushes, faults>>

\* scraper.scrapeProfile gives null: $inc failedProfiles and return
ProfileNotFound(w) ==
    /\ wpc[w] = "scraper"
    /\ cpc[w] = "using"
    /\ job' = [job EXCEPT !.failed = @ + 1]
    /\ wpc' = [wpc EXCEPT ![w] = "return"]
    /\ UNCHANGED <<opts, queue, wunit, wpriv, wfl, wfg, childJobs, hpc, hsnap, batchTriggered,
                   terminalWrites, jobFlushes, faults>>

\* the profile step with a seed that is saved but never buffered
BufferProfile_SkipSeed(w, isPrivate) ==
    /\ wpc[w] = "scraper"
    /\ cpc[w] = "using"
    /\ wpriv' = [wpriv EXCEPT ![w] = isPrivate]
    /\ IF wunit[w].depth = 0 THEN UNCHANGED bufVars ELSE addToBuffer(JobId)
    /\ batchTriggered' = (batchTriggered \/ Len(buffer) + 1 >= BUFFER_THRESHOLD)
    /\ wpc' = [wpc EXCEPT ![w] = "progress"]
    /\ UNCHANGED <<job, opts, queue, wunit, wfl, wfg, childJobs, hpc, hsnap,
                   terminalWrites, jobFlushes, faults>>

\* scraper.scrapeProfile gives a profile: it is saved and appended to the
\* analysis buffer, and the batch is triggered at the threshold
BufferProfile(w, isPrivate) ==
    /\ wpc[w] = "scraper"
    /\ cpc[w] = "using"
    /\ wpriv' = [wpriv EXCEPT ![w] = isPrivate]
    /\ addToBuffer(JobId)
    /\ batchTriggered' = (batchTriggered \/ Len(buffer) + 1 >= BUFFER_THRESHOLD)
    /\ wpc' = [wpc EXCEPT ![w] = "progress"]
    /\ UNCHANGED <<job, opts, queue, wunit, wfl, wfg, childJobs, hpc, hsnap,
                   terminalWrites, jobFlushes, faults>>

\* the test of the expansion with no look at isPrivate
Expands_IgnoresPrivate(w) == wunit[w].depth < opts.maxDepth

\* whether the unit goes on to queue its connections
Expands(w) == wunit[w].depth < opts.maxDepth /\ ~wpriv[w]

\* $inc processedProfiles
IncProcessed(w) ==
    /\ wpc[w] = "progress"
    /\ job' = [job EXCEPT !.processed = @ + 1]
    /\ wpc' = [wpc EXCEPT ![w] = IF Expands(w) THEN "followers" ELSE "return"]
    /\ UNCHANGED <<opts, queue, wunit, wpriv, wfl, wfg, childJobs, hpc, hsnap, batchTriggered,
                   terminalWrites, jobFlushes, faults>>

\* an awaited call inside the try block throws: scrapeProfile, scrapePosts, a
\* write of the profile, the posts or the counters, addToBuffer, or
\* addBulkScrapeJobs
StepThrows(w) ==
    /\ \/ wpc[w] = "scraper" /\ cpc[w] = "using"
       \/ wpc[w] \in {"progress", "enqueue"}
    /\ wpc' = [wpc EXCEPT ![w] = "throw"]
    /\ faults' = faults + 1
    /\ UNCHANGED <<job, opts, queue, wunit, wpriv, wfl, wfg, childJobs, hpc, hsnap,
                   batchTriggered, terminalWrites, jobFlushes>>

\* followers.forEach: every follower is pushed
RECURSIVE PushFollowers(_, _, _)
PushFollowers(children, followers, depth) ==
    IF followers = <<>> THEN children
    ELSE PushFollowers(Append(children, [username |-> Head(followers), depth |-> depth]),
                       Tail(followers), depth)

HasChild(children, u) == \E i \in 1..Len(children) : children[i].username = u

\* following.forEach with no look at what childJobs already holds
RECURSIVE PushFollowing_NoDedup(_, _, _)
PushFollowing_NoDedup(children, following, depth) ==
    IF following = <<>> THEN children
    ELSE PushFollowing_NoDedup(
             Append(children, [username |-> Head(following), depth |-> depth]),
             Tail(following), depth)

\* following.forEach: pushed unless childJobs has the username already
RECURSIVE PushFollowing(_, _, _)
PushFollowing(children, following, depth) ==
    IF following = <<>> THEN children
    ELSE PushFollowing(
             IF HasChild(children, Head(following)) THEN children
             ELSE Append(children, [username |-> Head(following), depth |-> depth]),
             Tail(following), depth)

\* scrapeFollowers (when enabled): totalProfiles grows by the list's length
\* and the children are pushed; res.throws stands for a call that throws
ScrapeFollowers(w, res) ==
    /\ wpc[w] = "followers"
    /\ IF ~opts.scrapeFollowers
       THEN /\ wpc' = [wpc EXCEPT ![w] = "following"]
            /\ UNCHANGED <<job, wfl, childJobs, faults>>
       ELSE IF res.throws
       THEN /\ wpc' = [wpc EXCEPT ![w] = "throw"]
            /\ faults' = faults + 1
            /\ UNCHANGED <<job, wfl, childJobs>>
       ELSE /\ UNCHANGED faults
            /\ wfl' = [wfl EXCEPT ![w] = res.list]
            /\ job' = [job EXCEPT !.total = @ + Len(res.list)]
            /\ childJobs' = [childJobs EXCEPT ![w] = PushFollowers(@, res.list, wunit[w].depth + 1)]
            /\ wpc' = [wpc EXCEPT ![w] = "following"]
    /\ UNCHANGED <<opts, queue, wunit, wpriv, wfg, hpc, hsnap, batchTriggered, terminalWrites,
                   jobFlushes>>

\* scrapeFollowing (when enabled): the same, with the duplicate check
ScrapeFollowing(w, res) ==
    /\ wpc[w] = "following"
    /\ IF ~opts.scrapeFollowing
       THEN /\ wpc' = [wpc EXCEPT ![w] = "enqueue"]
            /\ UNCHANGED <<job, wfg, childJobs, faults>>
       ELSE IF res.throws
       THEN /\ wpc' = [wpc EXCEPT ![w] = "throw"]
            /\ faults' = faults + 1
            /\ UNCHANGED <<job, wfg, childJobs>>
       ELSE /\ UNCHANGED faults
            /\ wfg' = [wfg EXCEPT ![w] = res.list]
            /\ job' = [job EXCEPT !.total = @ + Len(res.list)]
            /\ childJobs' = [childJobs EXCEPT ![w] = PushFollowing(@, res.list, wunit[w].depth + 1)]
            /\ wpc' = [wpc EXCEPT ![w] = "enqueue"]
    /\ UNCHANGED <<opts, queue, wunit, wpriv, wfl, hpc, hsnap, batchTriggered, terminalWrites,
                   jobFlushes>>

\* addBulkScrapeJobs with children that carry their parent's depth
EnqueueChildren_SameDepth(w) ==
    /\ wpc[w] = "enqueue"
    /\ queue' = QueueWithAll(queue, [i \in 1..Len(childJobs[w]) |->
                                       [username |-> childJobs[w][i].username,
                                        depth |-> wunit[w].depth]])
    /\ wpc' = [wpc EXCEPT ![w] = "return"]
    /\ UNCHANGED <<job, opts, wunit, wpriv, wfl, wfg, childJobs, hpc, hsnap, batchTriggered,
                   terminalWrites, jobFlushes, faults>>

\* addBulkScrapeJobs(childJobs)
EnqueueChildren(w) ==
    /\ wpc[w] = "enqueue"
    /\ queue' = QueueWithAll(queue, childJobs[w])
    /\ wpc' = [wpc EXCEPT ![w] = "return"]
    /\ UNCHANGED <<job, opts, wunit, wpriv, wfl, wfg, childJobs, hpc, hsnap, batchTriggered,
                   terminalWrites, jobFlushes, faults>>

\* the processor the next unit gets
FreeWorkers == {i \in 1..Len(WorkerOrder) : wpc[WorkerOrder[i]] = "idle"}

NextWorker == IF FreeWorkers = {} THEN WorkerOrder[1]
              ELSE WorkerOrder[CHOOSE i \in FreeWorkers : \A k \in FreeWorkers : i <= k]

\* the handler slot the next event gets when n handlers may be in flight
FreeHandlers(n) == {i \in 1..n : hpc[HandlerOrder[i]] = "idle"}

NextHandler(n) == HandlerOrder[CHOOSE i \in FreeHandlers(n) : \A k \in FreeHandlers(n) : i <= k]

\* the end of an attempt without the finally block: the scraper is released
\* on the returning paths only
FinishUnit_NoFinally(w, n) ==
    /\ wpc[w] \in {"return", "throw"}
    /\ FreeHandlers(n) # {}
    /\ queue' = [queue EXCEPT ![wunit[w]] =
                   IF wpc[w] = "return" THEN [st |-> "completed", att |-> @.att]
                   ELSE [st |-> IF @.att + 1 >= Attempts THEN "failed" ELSE "waiting",
                         att |-> @.att + 1]]
    /\ hpc' = [hpc EXCEPT ![NextHandler(n)] = IF wpc[w] = "return" THEN "find" ELSE "incFailed"]
    /\ wpc' = [wpc EXCEPT ![w] = "idle"]
    /\ wunit' = [wunit EXCEPT ![w] = NoUnit]
    /\ wpriv' = [wpriv EXCEPT ![w] = FALSE]
    /\ wfl' = [wfl EXCEPT ![w] = <<>>]
    /\ wfg' = [wfg EXCEPT ![w] = <<>>]
    /\ childJobs' = [childJobs EXCEPT ![w] = <<>>]
    /\ IF cpc[w] = "using" /\ wpc[w] = "return"
       THEN releaseScraperForSession(w) ELSE UNCHANGED poolVars
    /\ UNCHANGED <<job, opts, hsnap, batchTriggered, terminalWrites, jobFlushes, faults>>

\* the unit's attempt ends: the finally block releases the scraper, the queue
\* records the result (a thrown attempt is retried until Attempts are used
\* up) and the worker emits 'completed' or 'failed'
FinishUnit(w, n) ==
    /\ wpc[w] \in {"return", "throw"}
    /\ FreeHandlers(n) # {}
    /\ queue' = [queue EXCEPT ![wunit[w]] =
                   IF wpc[w] = "return" THEN [st |-> "completed", att |-> @.att]
                   ELSE [st |-> IF @.att + 1 >= Attempts THEN "failed" ELSE "waiting",
                         att |-> @.att + 1]]
    /\ hpc' = [hpc EXCEPT ![NextHandler(n)] = IF wpc[w] = "return" THEN "find" ELSE "incFailed"]
    /\ wpc' = [wpc EXCEPT ![w] = "idle"]
    /\ wunit' = [wunit EXCEPT ![w] = NoUnit]
    /\ wpriv' = [wpriv EXCEPT ![w] = FALSE]
    /\ wfl' = [wfl EXCEPT ![w] = <<>>]
    /\ wfg' = [wfg EXCEPT ![w] = <<>>]
    /\ childJobs' = [childJobs EXCEPT ![w] = <<>>]
    /\ IF cpc[w] = "using" THEN releaseScraperForSession(w) ELSE UNCHANGED poolVars
    /\ UNCHANGED <<job, opts, hsnap, batchTriggered, terminalWrites, jobFlushes, faults>>

\* worker.on('failed'): $inc failedProfiles
HandlerIncFailed(h) ==
    /\ hpc[h] = "incFailed"
    /\ job' = [job EXCEPT !.failed = @ + 1]
    /\ hpc' = [hpc EXCEPT ![h] = "find"]
    /\ UNCHANGED <<opts, queue, wpc, wunit, wpriv, wfl, wfg, childJobs, hsnap, batchTriggered,
                   terminalWrites, jobFlushes, faults>>

\* the test of checkAndCompleteJob, with > where the code has >=
CompletionDue_Strict(j) == j.processed + j.failed > j.total /\ j.total > 0

\* the test of checkAndCompleteJob on the document it read
CompletionDue(j) == j.processed + j.failed >= j.total /\ j.total > 0

\* checkAndCompleteJob: findOne and the test; processJobRemaining is entered
HandlerFind(h) ==
    /\ hpc[h] = "find"
    /\ hsnap' = [hsnap EXCEPT ![h] = job]
    /\ IF CompletionDue(job)
       THEN /\ hpc' = [hpc EXCEPT ![h] = "flush"]
            /\ jobFlushes' = IF jobFlushes < MaxWrites THEN jobFlushes + 1 ELSE jobFlushes
            /\ CallFlushBufferForJob(h, JobId)
       ELSE /\ hpc' = [hpc EXCEPT ![h] = "idle"]
            /\ UNCHANGED <<jobFlushes, bufVars>>
    /\ UNCHANGED <<job, opts, queue, wpc, wunit, wpriv, wfl, wfg, childJobs, batchTriggered,
                   terminalWrites, faults>>

\* checkAndCompleteJob: the terminal status computed from the document read
TerminalStatus(j) == IF j.failed = j.total THEN "failed" ELSE "completed"

\* checkAndCompleteJob: flushBufferForJob returns its list, processJobRemaining
\* works on it, and the status is written
HandlerWrite(h) ==
    /\ hpc[h] = "flush"
    /\ DrainReturn(h)
    /\ job' = [job EXCEPT !.status = TerminalStatus(hsnap[h])]
    /\ terminalWrites' = IF terminalWrites < MaxWrites THEN terminalWrites + 1 ELSE terminalWrites
    /\ hpc' = [hpc EXCEPT ![h] = "idle"]
    /\ hsnap' = [hsnap EXCEPT ![h] = NoScrape]
    /\ UNCHANGED <<opts, queue, wpc, wunit, wpriv, wfl, wfg, childJobs, batchTriggered,
                   jobFlushes, faults>>

(***************************************************************************)
(* Cancelling a job (DELETE of app/api/jobs/[id]/route.ts)                 *)
(***************************************************************************)
RouteInit == cancelPc = "idle"

\* Job.findOne and the test of the status it read
CancelFind ==
    /\ cancelPc = "idle"
    /\ job.status # "none"
    /\ cancelPc' = IF job.status = "processing" THEN "save" ELSE "idle"
    /\ UNCHANGED crawlVars

\* job.save(): status cancelled is written to the document
CancelSave ==
    /\ cancelPc = "save"
    /\ job' = [job EXCEPT !.status = "cancelled"]
    /\ cancelPc' = "idle"
    /\ UNCHANGED <<opts, queue, wpc, wunit, wpriv, wfl, wfg, childJobs, hpc, hsnap,
                   batchTriggered, terminalWrites, jobFlushes, faults>>

(***************************************************************************)
(* Batch analysis (aiAnalysisWorker.ts)                                    *)
(***************************************************************************)
BatchInit ==
    /\ bpc = [d \in Drainers |-> "idle"]
    /\ bufferedProfiles = [d \in Drainers |-> <<>>]
    /\ analysisResults = [d \in Drainers |-> <<>>]
    /\ embeddingData = [d \in Drainers |-> <<>>]
    /\ analysisCalls = [d \in Drainers |-> 0]
    /\ embeddingCalls = [d \in Drainers |-> 0]
    /\ persisted = [d \in Drainers |-> {}]
    /\ updateErrors = [d \in Drainers |-> {}]

\* analyzeInterestsBatch, the AI collaborator: one result per input, in the
\* order of the inputs, each naming the profile it is about
analyzeInterestsBatch(inputs) == [i \in 1..Len(inputs) |-> [username |-> inputs[i].rid]]

\* analyzeAndUpdateProfilesBatch: [] for no profiles, else the inputs are
\* mapped and handed to analyzeInterestsBatch in one call
analyzeAndUpdateProfilesBatch(profilesData) ==
    IF Len(profilesData) = 0 THEN <<>> ELSE analyzeInterestsBatch(profilesData)

\* processBatch is entered: flushBuffer(BUFFER_THRESHOLD)
processBatch(d) ==
    /\ bpc[d] = "idle"
    /\ CallFlushBuffer(d, BUFFER_THRESHOLD)
    /\ bpc' = [bpc EXCEPT ![d] = "flush"]
    /\ UNCHANGED <<bufferedProfiles, analysisResults, embeddingData, analysisCalls,
                   embeddingCalls, persisted, updateErrors>>

\* processJobRemaining(jobId) is entered: flushBufferForJob(jobId)
processJobRemaining(d, j) ==
    /\ bpc[d] = "idle"
    /\ CallFlushBufferForJob(d, j)
    /\ bpc' = [bpc EXCEPT ![d] = "flush"]
    /\ UNCHANGED <<bufferedProfiles, analysisResults, embeddingData, analysisCalls,
                   embeddingCalls, persisted, updateErrors>>

\* the drain has returned: return 0 on an empty list, else go on
BatchDrained(d) ==
    /\ bpc[d] = "flush"
    /\ DrainReturn(d)
    /\ bufferedProfiles' = [bufferedProfiles EXCEPT ![d] = dgot[d]]
    /\ bpc' = [bpc EXCEPT ![d] = IF Len(dgot[d]) = 0 THEN "return" ELSE "analyze"]
    /\ UNCHANGED <<analysisResults, embeddingData, analysisCalls, embeddingCalls, persisted,
                   updateErrors>>

\* the usernames the results of a call name
ResultNames(results) == {results[i].username : i \in 1..Len(results)}

\* the per-result updates without their try / catch: the first update that
\* throws rejects Promise.all and the call ends there
BatchAnalyze_Unguarded(d, failing) ==
    /\ bpc[d] = "analyze"
    /\ analysisCalls' = [analysisCalls EXCEPT ![d] = @ + 1]
    /\ analysisResults' = [analysisResults EXCEPT ![d] =
                              analyzeAndUpdateProfilesBatch(bufferedProfiles[d])]
    /\ persisted' = [persisted EXCEPT ![d] =
                        ResultNames(analysisResults'[d]) \ failing]
    /\ updateErrors' = [updateErrors EXCEPT ![d] =
                           ResultNames(analysisResults'[d]) \cap failing]
    /\ bpc' = [bpc EXCEPT ![d] = IF updateErrors'[d] = {} THEN "embed" ELSE "return"]
    /\ UNCHANGED <<bufferedProfiles, embeddingData, embeddingCalls>>

\* the batch analysis call, then Profile.updateOne for every result, each in
\* its own try / catch: the updates of the records in failing throw, are
\* logged and swallowed, the others are written
BatchAnalyze(d, failing) ==
    /\ bpc[d] = "analyze"
    /\ analysisCalls' = [analysisCalls EXCEPT ![d] = @ + 1]
    /\ analysisResults' = [analysisResults EXCEPT ![d] =
                              analyzeAndUpdateProfilesBatch(bufferedProfiles[d])]
    /\ persisted' = [persisted EXCEPT ![d] =
                        ResultNames(analysisResults'[d]) \ failing]
    /\ updateErrors' = [updateErrors EXCEPT ![d] =
                           ResultNames(analysisResults'[d]) \cap failing]
    /\ bpc' = [bpc EXCEPT ![d] = "embed"]
    /\ UNCHANGED <<bufferedProfiles, embeddingData, embeddingCalls>>

\* the embedding step as a loop over the profiles, one call for each
BatchEmbed_PerProfile(d) ==
    /\ bpc[d] = "embed"
    /\ embeddingData' = [embeddingData EXCEPT ![d] = bufferedProfiles[d]]
    /\ embeddingCalls' = [embeddingCalls EXCEPT ![d] = @ + Len(bufferedProfiles[d])]
    /\ bpc' = [bpc EXCEPT ![d] = "return"]
    /\ UNCHANGED <<bufferedProfiles, analysisResults, analysisCalls, persisted, updateErrors>>

\* embeddingData is built from bufferedProfiles[i] and analysisResults[i]
\* (reading a result that is not there throws), then one call of
\* createBulkProfileEmbeddings, whose failure is caught and logged
BatchEmbed(d) ==
    /\ bpc[d] = "embed"
    /\ IF Len(analysisResults[d]) < Len(bufferedProfiles[d])
       THEN UNCHANGED <<embeddingData, embeddingCalls>>
       ELSE /\ embeddingData' = [embeddingData EXCEPT ![d] =
                                   [i \in 1..Len(bufferedProfiles[d]) |->
                                       [jobId |-> bufferedProfiles[d][i].jobId,
                                        rid |-> bufferedProfiles[d][i].rid]]]
            /\ embeddingCalls' = [embeddingCalls EXCEPT ![d] = @ + 1]
    /\ bpc' = [bpc EXCEPT ![d] = "return"]
    /\ UNCHANGED <<bufferedProfiles, analysisResults, analysisCalls, persisted, updateErrors>>

\* the call returns the number of profiles it worked on
BatchReturn(d) ==
    /\ bpc[d] = "return"
    /\ bpc' = [bpc EXCEPT ![d] = "idle"]
    /\ bufferedProfiles' = [bufferedProfiles EXCEPT ![d] = <<>>]
    /\ analysisResults' = [analysisResults EXCEPT ![d] = <<>>]
    /\ embeddingData' = [embeddingData EXCEPT ![d] = <<>>]
    /\ analysisCalls' = [analysisCalls EXCEPT ![d] = 0]
    /\ embeddingCalls' = [embeddingCalls EXCEPT ![d] = 0]
    /\ persisted' = [persisted EXCEPT ![d] = {}]
    /\ updateErrors' = [updateErrors EXCEPT ![d] = {}]

(***************************************************************************)
(* The units of one job by username (worker.ts, scrapeQueue.ts)            *)
(***************************************************************************)
\* the jobId-username-depth identities of a job with maxDepth MaxVisitDepth
VisitUnits == [username : Users, depth : 0..MaxVisitDepth]

\* what scrapeFollowers / scrapeFollowing may return for username x
VisitLists(x) ==
    {<<>>} \cup {<<y>> : y \in Users \ {x}}
           \cup {l \in (Users \ {x}) \X (Users \ {x}) : l[1] # l[2]}

VisitInit ==
    /\ vqueue = [u \in VisitUnits |-> NotQueued]
    /\ vscrapes = [x \in Users |-> 0]

\* POST /api/scrape: addScrapeJob for the entry username at depth 0
VisitCreate ==
    /\ \A u \in VisitUnits : vqueue[u].st = "none"
    /\ vqueue' = QueueWith(vqueue, [username |-> Seed, depth |-> 0])
    /\ UNCHANGED vscrapes

\* a processor of the worker (concurrency 2) takes a waiting unit and
\* scrapes its profile
VisitStart(u) ==
    /\ vqueue[u].st = "waiting"
    /\ Cardinality({v \in VisitUnits : vqueue[v].st = "active"}) < Cardinality(Workers)
    /\ vqueue' = [vqueue EXCEPT ![u] = [@ EXCEPT !.st = "active"]]
    /\ vscrapes' = [vscrapes EXCEPT ![u.username] = @ + 1]

\* the rest of the unit: below maxDepth its followers and following become
\* childJobs handed to addBulkScrapeJobs, then the processor returns
VisitFinish(u, followers, following) ==
    /\ vqueue[u].st = "active"
    /\ vqueue' = [IF u.depth < MaxVisitDepth
                  THEN QueueWithAll(vqueue,
                          PushFollowing(PushFollowers(<<>>, followers, u.depth + 1),
                                        following, u.depth + 1))
                  ELSE vqueue
                  EXCEPT ![u] = [st |-> "completed", att |-> 0]]
    /\ UNCHANGED vscrapes

(***************************************************************************)
(* The crawl jobs of one session (scrape/route.ts, jobs/[id]/route.ts,     *)
(* worker.ts)                                                              *)
(***************************************************************************)
\* requests to POST /api/scrape that run side by side
Requesters == {"r1", "r2"}

SessInit ==
    /\ sjobs = [j \in Jobs |-> "none"]
    /\ sunit = [j \in Jobs |-> "none"]
    /\ rpc = [r \in Requesters |-> "idle"]
    /\ rexisting = [r \in Requesters |-> None]

\* the jobs of the session that Job.findOne with status in [pending,
\* processing] can return
ActiveJobs == {j \in Jobs : sjobs[j] \in {"pending", "processing"}}

\* POST: Job.findOne({sessionId, status: {$in: [pending, processing]}})
ScrapePostFind(r) ==
    /\ rpc[r] = "idle"
    /\ IF ActiveJobs = {}
       THEN /\ rpc' = [rpc EXCEPT ![r] = "create"]
            /\ UNCHANGED rexisting
       ELSE \E j \in ActiveJobs :
               /\ rexisting' = [rexisting EXCEPT ![r] = j]
               /\ rpc' = [rpc EXCEPT ![r] = "conflict"]
    /\ UNCHANGED <<sjobs, sunit>>

\* POST, existingJob found: it is saved as cancelled and 409 is returned
ScrapePostConflict(r) ==
    /\ rpc[r] = "conflict"
    /\ sjobs' = [sjobs EXCEPT ![rexisting[r]] = "cancelled"]
    /\ rpc' = [rpc EXCEPT ![r] = "idle"]
    /\ rexisting' = [rexisting EXCEPT ![r] = None]
    /\ UNCHANGED sunit

\* POST, no existingJob: Job.create with a fresh jobId and status pending
ScrapePostCreate(r, j) ==
    /\ rpc[r] = "create"
    /\ sjobs[j] = "none"
    /\ sjobs' = [sjobs EXCEPT ![j] = "pending"]
    /\ rexisting' = [rexisting EXCEPT ![r] = j]
    /\ rpc' = [rpc EXCEPT ![r] = "enqueue"]
    /\ UNCHANGED sunit

\* POST: addScrapeJob for the entry username, then the response
ScrapePostEnqueue(r) ==
    /\ rpc[r] = "enqueue"
    /\ sunit' = [sunit EXCEPT ![rexisting[r]] = "waiting"]
    /\ rpc' = [rpc EXCEPT ![r] = "idle"]
    /\ rexisting' = [rexisting EXCEPT ![r] = None]
    /\ UNCHANGED sjobs

\* the worker takes the seed unit: JobModel.updateOne({jobId}, {status:
\* processing}), whatever the status was
SessStartUnit(j) ==
    /\ sunit[j] = "waiting"
    /\ sunit' = [sunit EXCEPT ![j] = "active"]
    /\ sjobs' = [sjobs EXCEPT ![j] = "processing"]
    /\ UNCHANGED <<rpc, rexisting>>

\* the unit of a job without children ends; checkAndCompleteJob finds
\* processed + failed >= total and writes the terminal status
SessFinishUnit(j, status) ==
    /\ sunit[j] = "active"
    /\ sunit' = [sunit EXCEPT ![j] = "done"]
    /\ sjobs' = [sjobs EXCEPT ![j] = status]
    /\ UNCHANGED <<rpc, rexisting>>

\* DELETE /api/jobs/[id]: a job found in status processing is saved cancelled
SessCancel(j) ==
    /\ sjobs[j] = "processing"
    /\ sjobs' = [sjobs EXCEPT ![j] = "cancelled"]
    /\ UNCHANGED <<sunit, rpc, rexisting>>

Init == BufInit /\ PoolInit /\ AuthInit /\ CrawlInit /\ RouteInit /\ BatchInit /\ VisitInit
        /\ SessInit

\* frames: a step of one component leaves the other components alone
BufferOnly == UNCHANGED <<poolVars, authVars, crawlVars, routeVars, batchVars, visitVars, sessVars>>

PoolOnly == UNCHANGED <<bufVars, authVars, crawlVars, routeVars, batchVars, visitVars, sessVars>>

AuthOnly == UNCHANGED <<bufVars, poolVars, crawlVars, routeVars, batchVars, visitVars, sessVars>>

CrawlOnly == UNCHANGED <<bufVars, poolVars, authVars, routeVars, batchVars, visitVars, sessVars>>

CrawlAndBuffer == UNCHANGED <<poolVars, authVars, routeVars, batchVars, visitVars, sessVars>>

CrawlAndPool == UNCHANGED <<bufVars, authVars, routeVars, batchVars, visitVars, sessVars>>

RouteOnly == UNCHANGED <<bufVars, poolVars, authVars, batchVars, visitVars, sessVars>>

BatchOnly == UNCHANGED <<bufVars, poolVars, authVars, crawlVars, routeVars, visitVars, sessVars>>

BatchAndBuffer == UNCHANGED <<poolVars, authVars, crawlVars, routeVars, visitVars, sessVars>>

VisitOnly == UNCHANGED <<bufVars, poolVars, authVars, crawlVars, routeVars, batchVars, sessVars>>

SessOnly == UNCHANGED <<bufVars, poolVars, authVars, crawlVars, routeVars, batchVars, visitVars>>

\* ---- one job with both lists on, followed by username ----
NextVisit ==
    \/ VisitCreate /\ VisitOnly
    \/ \E u \in VisitUnits : VisitStart(u) /\ VisitOnly
    \/ \E u \in VisitUnits :
          \E followers \in VisitLists(u.username), following \in VisitLists(u.username) :
              VisitFinish(u, followers, following) /\ VisitOnly

SpecVisit == Init /\ [][NextVisit]_vars

\* ---- the create requests of one session, the worker and the cancel route ----
NextSess ==
    \/ \E r \in Requesters : ScrapePostFind(r) /\ SessOnly
    \/ \E r \in Requesters : ScrapePostConflict(r) /\ SessOnly
    \/ \E r \in Requesters, j \in Jobs : ScrapePostCreate(r, j) /\ SessOnly
    \/ \E r \in Requesters : ScrapePostEnqueue(r) /\ SessOnly
    \/ \E j \in Jobs : SessStartUnit(j) /\ SessOnly
    \/ \E j \in Jobs, status \in {"completed", "failed"} : SessFinishUnit(j, status) /\ SessOnly
    \/ \E j \in Jobs : SessCancel(j) /\ SessOnly

SpecSess == Init /\ [][NextSess]_vars

\* ---- the buffer under arbitrary callers ----
NextBuffer ==
    \/ \E j \in Jobs : nextRid <= MaxRecords /\ addToBuffer(j) /\ BufferOnly
    \/ \E d \in Drainers, n \in 1..MaxCount : CallFlushBuffer(d, n) /\ BufferOnly
    \/ \E d \in Drainers, j \in Jobs : CallFlushBufferForJob(d, j) /\ BufferOnly
    \/ \E d \in Drainers : DrainStep(d) /\ BufferOnly
    \/ LockExpire /\ BufferOnly

SpecBuffer == Init /\ [][NextBuffer]_vars

\* ---- the batch processor: units append records, processBatch and ----
\* ---- processJobRemaining run side by side                        ----
NextBatch ==
    \/ \E j \in Jobs : nextRid <= MaxRecords /\ addToBuffer(j) /\ BufferOnly
    \/ \E d \in Drainers : processBatch(d) /\ BatchAndBuffer
    \/ \E d \in Drainers, j \in Jobs : processJobRemaining(d, j) /\ BatchAndBuffer
    \/ \E d \in Drainers : acquireLock(d) /\ BufferOnly
    \/ \E d \in Drainers : FlushPop(d) /\ BufferOnly
    \/ \E d \in Drainers : JobRange(d) /\ BufferOnly
    \/ \E d \in Drainers : JobExec(d) /\ BufferOnly
    \/ \E d \in Drainers : releaseLock(d) /\ BufferOnly
    \/ \E d \in Drainers : BatchDrained(d) /\ BatchAndBuffer
    \/ \E d \in Drainers : \E failing \in SUBSET RidsOf(bufferedProfiles[d]) :
          BatchAnalyze(d, failing) /\ BatchOnly
    \/ \E d \in Drainers : BatchEmbed(d) /\ BatchOnly
    \/ \E d \in Drainers : BatchReturn(d) /\ BatchOnly
    \/ LockExpire /\ BufferOnly

SpecBatch == Init /\ [][NextBatch]_vars

\* ---- N records, then flushBuffer(N/2) beside flushBufferForJob(unrelated) ----
NoDrainCalled == \A d \in Drainers : dpc[d] = "idle"

NextLostLock ==
    \/ NoDrainCalled /\ nextRid <= MaxBatch /\ addToBuffer("j1") /\ BufferOnly
    \/ nextRid > 2 /\ CallFlushBuffer("d1", (nextRid - 1) \div 2) /\ BufferOnly
    \/ nextRid > 2 /\ CallFlushBufferForJob("d2", "j2") /\ BufferOnly
    \/ \E d \in Drainers : acquireLock(d) /\ BufferOnly
    \/ \E d \in Drainers : FlushPop(d) /\ BufferOnly
    \/ \E d \in Drainers : JobRange(d) /\ BufferOnly
    \/ \E d \in Drainers : releaseLock(d) /\ BufferOnly
    \/ LockExpire /\ BufferOnly

SpecLostLock == Init /\ [][NextLostLock]_vars

(***************************************************************************)
(* Properties of the analysis buffer                                       *)
(***************************************************************************)
Appended == 1..(nextRid - 1)

InBuffer(r) == \E i \in 1..Len(buffer) : buffer[i].rid = r

\* r is in the list a drain call is collecting or has just returned
InDrain(r) == \E d \in Drainers : dpc[d] # "idle" /\ CountIn(dgot[d], r) > 0

\* C2: every record appended is returned by exactly one drain call: a record
\* that left the buffer is in the result of a drain, and no record is returned
\* by two drain calls.
C2_ExactlyOnce ==
    \A r \in Appended :
        /\ InBuffer(r) \/ InDrain(r) \/ returned[r] >= 1
        /\ returned[r] <= 1

\* C4: with N records appended and flushBuffer(N/2) issued beside
\* flushBufferForJob of a job that owns none of them, a call that did not get
\* the lock returns the empty list, and each of the N records is in the buffer
\* or in the list of a call that got the lock.
C4_LoserEmptyNoneLost ==
    /\ \A d \in Drainers : (dpc[d] = "done" /\ ~hasLock[d]) => dgot[d] = <<>>
    /\ \A r \in Appended :
          \/ InBuffer(r)
          \/ \E d \in Drainers : hasLock[d] /\ dop[d].kind = "upTo" /\ CountIn(dgot[d], r) = 1

\* both calls are over, flushBufferForJob lost the lock to flushBuffer, which
\* returned N/2 >= 1 records
C4_Witness ==
    /\ dpc["d1"] = "done" /\ dpc["d2"] = "done"
    /\ hasLock["d1"] /\ ~hasLock["d2"]
    /\ Len(dgot["d1"]) = (nextRid - 1) \div 2
    /\ Len(dgot["d1"]) >= 1
    /\ Len(buffer) = (nextRid - 1) - Len(dgot["d1"])

NextPool ==
    \/ \E c \in Workers : GetScraperCall(c, SessionId) /\ PoolOnly
    \/ \E c \in Workers : GetScraperReuse(c) /\ PoolOnly
    \/ \E c \in Workers : GetScraperBusy(c) /\ PoolOnly
    \/ \E c \in Workers : GetScraperLookup(c) /\ PoolOnly
    \/ \E c \in Workers : GetScraperNoSession(c) /\ PoolOnly
    \/ \E c \in Workers : GetScraperInit(c) /\ PoolOnly
    \/ \E c \in Workers : GetScraperCreate(c) /\ PoolOnly
    \/ \E c \in Workers : releaseScraperForSession(c) /\ PoolOnly
    \/ \E c \in Closers : CloseScraperCall(c, SessionId) /\ PoolOnly
    \/ \E c \in Closers : CloseScraperClosing(c) /\ PoolOnly
    \/ \E c \in Closers : CloseScraperDone(c) /\ PoolOnly
    \/ \E s \in Sessions : EntryAges(s) /\ PoolOnly
    \/ CleanupSweep /\ PoolOnly

SpecPool == Init /\ [][NextPool]_vars

\* ---- the pool with callers for two sessions ----
NextPoolSessions ==
    \/ NextPool
    \/ \E c \in Workers, s \in Sessions : GetScraperCall(c, s) /\ PoolOnly
    \/ \E c \in Closers, s \in Sessions : CloseScraperCall(c, s) /\ PoolOnly

SpecPoolSessions == Init /\ [][NextPoolSessions]_vars

\* ---- the pool with closeAllScrapers beside its other callers ----
NextPoolAll ==
    \/ NextPool
    \/ CloseAllStart /\ PoolOnly
    \/ CloseAllDone /\ PoolOnly

SpecPoolAll == Init /\ [][NextPoolAll]_vars

\* ---- the same under the scheduling of one event loop: a caller whose ----
\* ---- awaited promise has resolved goes on (a promise job) before any ----
\* ---- timer, I/O completion or new request is handled                  ----
GrantPending == \E c \in Callers : cpc[c] \in {"getLock", "closeLock"} /\ LockGranted(c)

NextPoolPrompt ==
    \/ ~GrantPending /\ NextPool
    \/ \E c \in Workers : GetScraperReuse(c) /\ PoolOnly
    \/ \E c \in Workers : GetScraperBusy(c) /\ PoolOnly
    \/ \E c \in Workers : GetScraperLookup(c) /\ PoolOnly
    \/ \E c \in Closers : CloseScraperClosing(c) /\ PoolOnly
    \/ \E c \in Closers : cpc[c] = "closeLock" /\ CloseScraperDone(c) /\ PoolOnly

SpecPoolPrompt == Init /\ [][NextPoolPrompt]_vars

\* ---- the pool under the event loop's guarantee that a call of       ----
\* ---- getScraperForSession goes on: its timer fires, its awaited     ----
\* ---- promises settle; a holder is free never to release its handle  ----
\* the steps a call of getScraperForSession takes by itself
GetScraperStep(c) ==
    \/ cpc[c] = "retry" /\ GetScraperCall(c, csess[c])
    \/ GetScraperReuse(c)
    \/ GetScraperBusy(c)
    \/ GetScraperLookup(c)
    \/ GetScraperNoSession(c)
    \/ GetScraperInit(c)
    \/ GetScraperCreate(c)

\* the steps a call of closeScraperForSession takes by itself
CloseScraperStep(c) == CloseScraperClosing(c) \/ CloseScraperDone(c)

SpecPoolWait ==
    /\ Init /\ [][NextPool]_vars
    /\ \A c \in Workers : WF_vars(GetScraperStep(c) /\ PoolOnly)
    /\ \A c \in Closers : WF_vars(CloseScraperStep(c) /\ PoolOnly)

(***************************************************************************)
(* Properties of the session pool                                          *)
(***************************************************************************)
\* callers that were handed a handle of session s which is still open
Holders(s) == {c \in Workers : cpc[c] = "using" /\ csess[c] = s /\ cheld[c] \in openHandles}

\* C3: one session identity never has more than one live browser handle, and
\* never two callers holding a busy handle at the same time.
C3_OneLiveHandle ==
    /\ Cardinality(openHandles) <= 1
    /\ \A s \in Sessions : Cardinality(Holders(s)) <= 1

\* ---- the auth queue, its worker, the clients and the timers ----
NextAuth ==
    \/ \E a \in AuthIds : SubmitLogin(a) /\ AuthOnly
    \/ \E a \in AuthIds, code \in Codes : SubmitCode(a, code) /\ AuthOnly
    \/ \E a \in AuthIds : RemoveRetained(a) /\ AuthOnly
    \/ \E a \in AuthIds : AuthStateExpire(a) /\ AuthOnly
    \/ \E a \in AuthIds : AuthDequeue(a) /\ AuthOnly
    \/ LoginGetState /\ AuthOnly
    \/ LoginSetProcessing /\ AuthOnly
    \/ LoginRequires2FA /\ AuthOnly
    \/ LoginFails /\ AuthOnly
    \/ LoginSucceeds /\ AuthOnly
    \/ LoginSetState /\ AuthOnly
    \/ VerifyLookup /\ AuthOnly
    \/ ExpiredGetState /\ AuthOnly
    \/ ExpiredSetState /\ AuthOnly
    \/ VerifyGetState /\ AuthOnly
    \/ VerifySetProcessing /\ AuthOnly
    \/ VerifyCall /\ AuthOnly
    \/ VerifyReturns /\ AuthOnly
    \/ VerifySave /\ AuthOnly
    \/ VerifySetCompleted /\ AuthOnly
    \/ VerifySetRejected /\ AuthOnly
    \/ VerifyCatch /\ AuthOnly
    \/ \E a \in AuthIds : TimerFires(a) /\ AuthOnly
    \/ \E a \in AuthIds : TimerCloses(a) /\ AuthOnly

SpecAuth == Init /\ [][NextAuth]_vars

\* ---- the same with a state write of the login job that may throw ----
NextAuthFaults ==
    \/ NextAuth
    \/ LoginSetStateThrows /\ AuthOnly

SpecAuthFaults == Init /\ [][NextAuthFaults]_vars

(***************************************************************************)
(* Properties of the auth worker                                           *)
(***************************************************************************)
\* the worker is inside a verify-2fa job for a that began after the cleanup
VerifyingAfterCleanup(a) == ajob = a /\ aAfterLapse /\ apc \notin {"idle", "l_get", "v_lookup"}

\* what holds once the cleanup callback closed the unclaimed handle of a, up
\* to how a later verify-2fa job ends
HandleGone(a) ==
    /\ ~pendingAuthSessions[a]
    /\ ~scraperOpen[a]
    /\ VerifyingAfterCleanup(a) => apc \in {"x_get", "x_set"}
    /\ a \notin savedSessions

\* an armed timer whose login was never followed by a verify-2fa job finds
\* the handle registered and open, so its callback closes it
TimerFindsHandle(a) ==
    /\ (cleanupTimers[a] = "armed" /\ a \notin vstarted) => pendingAuthSessions[a] /\ scraperOpen[a]
    /\ (cleanupTimers[a] = "fired" /\ a \notin vstarted) => timerCb[a] = "closing"

C8_RetryAfterRejectedCode ==
    [][\A a \in AuthIds :
         /\ (apc = "v_setRejected" /\ ajob = a /\ apc' = "idle")
              => /\ authState'[a].status = "waiting_2fa"
                 /\ pendingAuthSessions'[a]
                 /\ scraperOpen'[a]
         /\ (ajob = a /\ a \in rejected /\ authQueue[a].type = "verify-2fa"
               /\ authQueue[a].code = "right" /\ apc # "idle" /\ apc' = "idle")
              => authState'[a].status = "completed"]_vars

\* ---- the crawl: scrape route, queue, worker with its pool and buffer; ----
\* ---- no attempt throws                                                 ----
\* what a call of scrapeFollowers / scrapeFollowing may return
ScrapeResults == {[throws |-> FALSE, list |-> l] : l \in Lists}

NextCrawl ==
    \/ \E md \in 0..MaxDepth, fo \in BOOLEAN, fg \in BOOLEAN :
          CreateJob(Seed, md, fo, fg) /\ CrawlOnly
    \/ \E u \in Units : StartUnit(NextWorker, u) /\ CrawlAndPool
    \/ \E w \in Workers : wpc[w] = "scraper" /\ cpc[w] = "retry" /\ GetScraperCall(w, SessionId) /\ PoolOnly
    \/ \E w \in Workers : GetScraperReuse(w) /\ PoolOnly
    \/ \E w \in Workers : GetScraperBusy(w) /\ PoolOnly
    \/ \E w \in Workers : GetScraperLookup(w) /\ PoolOnly
    \/ \E w \in Workers : GetScraperInit(w) /\ PoolOnly
    \/ \E w \in Workers : GetScraperCreate(w) /\ PoolOnly
    \/ \E w \in Workers : ProfileNotFound(w) /\ CrawlOnly
    \/ \E w \in Workers, isPrivate \in BOOLEAN :
          nextRid <= MaxRecords /\ BufferProfile(w, isPrivate) /\ CrawlAndBuffer
    \/ \E w \in Workers : IncProcessed(w) /\ CrawlOnly
    \/ \E w \in Workers, res \in ScrapeResults : ScrapeFollowers(w, res) /\ CrawlOnly
    \/ \E w \in Workers, res \in ScrapeResults : ScrapeFollowing(w, res) /\ CrawlOnly
    \/ \E w \in Workers : EnqueueChildren(w) /\ CrawlOnly
    \/ \E w \in Workers : FinishUnit(w, MaxInFlight) /\ CrawlAndPool
    \/ \E h \in Handlers : HandlerFind(h) /\ CrawlAndBuffer
    \/ \E h \in Handlers : acquireLock(h) /\ BufferOnly
    \/ \E h \in Handlers : JobRange(h) /\ BufferOnly
    \/ \E h \in Handlers : JobExec(h) /\ BufferOnly
    \/ \E h \in Handlers : releaseLock(h) /\ BufferOnly
    \/ \E h \in Handlers : HandlerWrite(h) /\ CrawlAndBuffer

SpecCrawl == Init /\ [][NextCrawl]_vars

\* ---- the fault-free crawl with a client that may cancel the job ----
NextCrawlCancel ==
    \/ NextCrawl
    \/ CancelFind /\ RouteOnly
    \/ CancelSave /\ RouteOnly

SpecCrawlCancel == Init /\ [][NextCrawlCancel]_vars

\* ---- the fault-free crawl beside the completion check of another job, ----
\* ---- which drains the shared buffer for its own jobId                 ----
OtherJob == "j2"

OtherDrainer == "d1"

NextCrawlShared ==
    \/ NextCrawl
    \/ job.status # "none" /\ CallFlushBufferForJob(OtherDrainer, OtherJob) /\ BufferOnly
    \/ DrainStep(OtherDrainer) /\ BufferOnly

SpecCrawlShared == Init /\ [][NextCrawlShared]_vars

\* ---- the crawl with attempts that throw and are retried by the queue ----
\* a call returns a list of at most one name, or throws
FaultLists == {<<>>, <<"bob">>}

FaultResults == {[throws |-> FALSE, list |-> l] : l \in FaultLists} \cup {[throws |-> TRUE, list |-> <<>>]}

NextCrawlFaults ==
    \/ \E md \in 0..MaxDepth : CreateJob(Seed, md, TRUE, TRUE) /\ CrawlOnly
    \/ \E u \in Units : StartUnit(NextWorker, u) /\ CrawlAndPool
    \/ \E w \in Workers : wpc[w] = "scraper" /\ cpc[w] = "retry" /\ GetScraperCall(w, SessionId) /\ PoolOnly
    \/ \E w \in Workers : GetScraperReuse(w) /\ PoolOnly
    \/ \E w \in Workers : GetScraperBusy(w) /\ PoolOnly
    \/ \E w \in Workers : GetScraperLookup(w) /\ PoolOnly
    \/ \E w \in Workers : GetScraperInit(w) /\ PoolOnly
    \/ \E w \in Workers : GetScraperCreate(w) /\ PoolOnly
    \/ \E w \in Workers : faults < MaxFaults /\ SessionMissing(w) /\ CrawlAndPool
    \/ \E w \in Workers : ProfileNotFound(w) /\ CrawlOnly
    \/ \E w \in Workers, isPrivate \in BOOLEAN :
          nextRid <= MaxRecords /\ BufferProfile(w, isPrivate) /\ CrawlAndBuffer
    \/ \E w \in Workers : IncProcessed(w) /\ CrawlOnly
    \/ \E w \in Workers, res \in FaultResults :
          (res.throws => faults < MaxFaults) /\ ScrapeFollowers(w, res) /\ CrawlOnly
    \/ \E w \in Workers, res \in FaultResults :
          (res.throws => faults < MaxFaults) /\ ScrapeFollowing(w, res) /\ CrawlOnly
    \/ \E w \in Workers : EnqueueChildren(w) /\ CrawlOnly
    \/ \E w \in Workers : FinishUnit(w, MaxInFlight) /\ CrawlAndPool
    \/ \E h \in Handlers : HandlerIncFailed(h) /\ CrawlOnly
    \/ \E h \in Handlers : HandlerFind(h) /\ CrawlAndBuffer
    \/ \E h \in Handlers : acquireLock(h) /\ BufferOnly
    \/ \E h \in Handlers : JobRange(h) /\ BufferOnly
    \/ \E h \in Handlers : JobExec(h) /\ BufferOnly
    \/ \E h \in Handlers : releaseLock(h) /\ BufferOnly
    \/ \E h \in Handlers : HandlerWrite(h) /\ CrawlAndBuffer

SpecCrawlFaults == Init /\ [][NextCrawlFaults]_vars

\* ---- the crawl in which any awaited call of a unit may throw ----
NextCrawlThrows ==
    \/ CreateJob(Seed, MaxDepth, TRUE, TRUE) /\ CrawlOnly
    \/ \E u \in Units : StartUnit(NextWorker, u) /\ CrawlAndPool
    \/ \E w \in Workers : wpc[w] = "scraper" /\ cpc[w] = "retry" /\ GetScraperCall(w, SessionId) /\ PoolOnly
    \/ \E w \in Workers : GetScraperReuse(w) /\ PoolOnly
    \/ \E w \in Workers : GetScraperBusy(w) /\ PoolOnly
    \/ \E w \in Workers : GetScraperLookup(w) /\ PoolOnly
    \/ \E w \in Workers : GetScraperInit(w) /\ PoolOnly
    \/ \E w \in Workers : GetScraperCreate(w) /\ PoolOnly
    \/ \E w \in Workers : faults < MaxFaults /\ SessionMissing(w) /\ CrawlAndPool
    \/ \E w \in Workers : faults < MaxFaults /\ StepThrows(w) /\ CrawlOnly
    \/ \E w \in Workers : ProfileNotFound(w) /\ CrawlOnly
    \/ \E w \in Workers, isPrivate \in BOOLEAN :
          nextRid <= MaxRecords /\ BufferProfile(w, isPrivate) /\ CrawlAndBuffer
    \/ \E w \in Workers : IncProcessed(w) /\ CrawlOnly
    \/ \E w \in Workers, res \in FaultResults :
          (res.throws => faults < MaxFaults) /\ ScrapeFollowers(w, res) /\ CrawlOnly
    \/ \E w \in Workers, res \in FaultResults :
          (res.throws => faults < MaxFaults) /\ ScrapeFollowing(w, res) /\ CrawlOnly
    \/ \E w \in Workers : EnqueueChildren(w) /\ CrawlOnly
    \/ \E w \in Workers : FinishUnit(w, MaxInFlight) /\ CrawlAndPool
    \/ \E h \in Handlers : HandlerIncFailed(h) /\ CrawlOnly
    \/ \E h \in Handlers : HandlerFind(h) /\ CrawlAndBuffer
    \/ \E h \in Handlers : acquireLock(h) /\ BufferOnly
    \/ \E h \in Handlers : JobRange(h) /\ BufferOnly
    \/ \E h \in Handlers : JobExec(h) /\ BufferOnly
    \/ \E h \in Handlers : releaseLock(h) /\ BufferOnly
    \/ \E h \in Handlers : HandlerWrite(h) /\ CrawlAndBuffer

SpecCrawlThrows == Init /\ [][NextCrawlThrows]_vars

\* ---- one unit, the seed, whose attempts may throw at every awaited    ----
\* ---- call and whose addBulkScrapeJobs always throws: no child is ever ----
\* ---- queued and the seed is retried until its attempts are used up    ----
NextCrawlExhaust ==
    \/ \E md \in 0..MaxDepth : CreateJob(Seed, md, TRUE, TRUE) /\ CrawlOnly
    \/ \E u \in Units : StartUnit(NextWorker, u) /\ CrawlAndPool
    \/ \E w \in Workers : GetScraperReuse(w) /\ PoolOnly
    \/ \E w \in Workers : GetScraperLookup(w) /\ PoolOnly
    \/ \E w \in Workers : GetScraperInit(w) /\ PoolOnly
    \/ \E w \in Workers : GetScraperCreate(w) /\ PoolOnly
    \/ \E w \in Workers : SessionMissing(w) /\ CrawlAndPool
    \/ \E w \in Workers : StepThrows(w) /\ CrawlOnly
    \/ \E w \in Workers : ProfileNotFound(w) /\ CrawlOnly
    \/ \E w \in Workers, isPrivate \in BOOLEAN :
          nextRid <= MaxRecords /\ BufferProfile(w, isPrivate) /\ CrawlAndBuffer
    \/ \E w \in Workers : IncProcessed(w) /\ CrawlOnly
    \/ \E w \in Workers, res \in FaultResults : ScrapeFollowers(w, res) /\ CrawlOnly
    \/ \E w \in Workers, res \in FaultResults : ScrapeFollowing(w, res) /\ CrawlOnly
    \/ \E w \in Workers : FinishUnit(w, MaxInFlight) /\ CrawlAndPool
    \/ \E h \in Handlers : HandlerIncFailed(h) /\ CrawlOnly
    \/ \E h \in Handlers : HandlerFind(h) /\ CrawlAndBuffer
    \/ \E h \in Handlers : acquireLock(h) /\ BufferOnly
    \/ \E h \in Handlers : JobRange(h) /\ BufferOnly
    \/ \E h \in Handlers : JobExec(h) /\ BufferOnly
    \/ \E h \in Handlers : releaseLock(h) /\ BufferOnly
    \/ \E h \in Handlers : HandlerWrite(h) /\ CrawlAndBuffer

SpecCrawlExhaust == Init /\ [][NextCrawlExhaust]_vars

\* ---- the end-to-end run: seed alice, depth bound 1, followers only, ----
\* ---- scrapeFollowers(alice) = [bob, carol], every scrape succeeds    ----
AliceFollowers == [throws |-> FALSE, list |-> <<"bob", "carol">>]

NextEndToEnd ==
    \/ CreateJob(Seed, 1, TRUE, FALSE) /\ CrawlOnly
    \/ \E u \in Units : StartUnit(NextWorker, u) /\ CrawlAndPool
    \/ \E w \in Workers : wpc[w] = "scraper" /\ cpc[w] = "retry" /\ GetScraperCall(w, SessionId) /\ PoolOnly
    \/ \E w \in Workers : GetScraperReuse(w) /\ PoolOnly
    \/ \E w \in Workers : GetScraperBusy(w) /\ PoolOnly
    \/ \E w \in Workers : GetScraperLookup(w) /\ PoolOnly
    \/ \E w \in Workers : GetScraperInit(w) /\ PoolOnly
    \/ \E w \in Workers : GetScraperCreate(w) /\ PoolOnly
    \/ \E w \in Workers : nextRid <= MaxRecords /\ BufferProfile(w, FALSE) /\ CrawlAndBuffer
    \/ \E w \in Workers : IncProcessed(w) /\ CrawlOnly
    \/ \E w \in Workers : ScrapeFollowers(w, AliceFollowers) /\ CrawlOnly
    \/ \E w \in Workers : ScrapeFollowing(w, AliceFollowers) /\ CrawlOnly
    \/ \E w \in Workers : EnqueueChildren(w) /\ CrawlOnly
    \/ \E w \in Workers : FinishUnit(w, Len(HandlerOrder)) /\ CrawlAndPool
    \/ \E h \in Handlers : HandlerFind(h) /\ CrawlAndBuffer
    \/ \E h \in Handlers : acquireLock(h) /\ BufferOnly
    \/ \E h \in Handlers : JobRange(h) /\ BufferOnly
    \/ \E h \in Handlers : JobExec(h) /\ BufferOnly
    \/ \E h \in Handlers : releaseLock(h) /\ BufferOnly
    \/ \E h \in Handlers : HandlerWrite(h) /\ CrawlAndBuffer
    \/ LockExpire /\ BufferOnly

SpecEndToEnd == Init /\ [][NextEndToEnd]_vars

(***************************************************************************)
(* Properties of the crawl                                                 *)
(***************************************************************************)
\* C1: in every reachable state of the crawl job, processedProfiles +
\* failedProfiles is at most totalProfiles, whatever succeeds, is not found,
\* throws or is retried.
C1_CountersWithinTotal == job.processed + job.failed <= job.total

\* C5: of the completion checks of one job, exactly one runs the job-scoped
\* flush and writes the terminal status; no later check does either again.
C5_SingleTerminalWrite == terminalWrites <= 1 /\ jobFlushes <= 1

Range(seq) == {seq[i] : i \in 1..Len(seq)}

\* C6: the childJobs a unit at depth d < maxDepth hands to addBulkScrapeJobs
\* hold every username of its followers and following lists exactly once,
\* each with depth d + 1, also for a username that is in both lists; and
\* after the call each of them is a job of the queue.
C6_ChildrenOncePerConnection ==
    \A w \in Workers :
        /\ wpc[w] = "enqueue" =>
              /\ wunit[w].depth < opts.maxDepth
              /\ Range(childJobs[w]) =
                    {[username |-> u, depth |-> wunit[w].depth + 1] :
                        u \in Range(wfl[w]) \cup Range(wfg[w])}
              /\ \A i, k \in 1..Len(childJobs[w]) :
                    i # k => childJobs[w][i].username # childJobs[w][k].username
        /\ wpc[w] = "return" => \A i \in 1..Len(childJobs[w]) : queue[childJobs[w][i]].st # "none"

\* a unit is about to enqueue two children, one of them named by both lists
C6_Witness ==
    \E w \in Workers :
        /\ wpc[w] = "enqueue"
        /\ Len(childJobs[w]) = 2
        /\ Range(wfl[w]) \cap Range(wfg[w]) # {}

\* nothing of the crawl is left to run
Quiescent ==
    /\ job.status # "none"
    /\ \A w \in Workers : wpc[w] = "idle"
    /\ \A h \in Handlers : hpc[h] = "idle"
    /\ \A u \in Units : queue[u].st \notin {"waiting", "active"}

\* C9: seed alice, depth bound 1, followers only, followers [bob, carol], all
\* scraped successfully: the job ends with totalProfiles 3, processedProfiles
\* 3 and status completed.
C9_EndsCompleted ==
    /\ Quiescent => job = [status |-> "completed", total |-> 3, processed |-> 3, failed |-> 0]
    /\ (job.status # "none" /\ ~ENABLED NextEndToEnd) => Quiescent

\* the run is over and the job is completed with all three processed
C9_Witness == Quiescent /\ job.status = "completed" /\ job.processed = 3 /\ terminalWrites >= 1

\* the records a drain of processJobRemaining returned
FlushedRecords == {r \in Rids : returned[r] > 0}

\* C10 as stated: in the same run the number of buffered records flushed
\* through processJobRemaining is two.
C10_TwoFlushed == Quiescent => Cardinality(FlushedRecords) = 2

\* C10 amended: in the same run every unit, the seed included, appends one
\* record, and all three records are flushed through processJobRemaining;
\* none is left in the buffer.
C10_ThreeFlushed ==
    Quiescent => /\ Cardinality(FlushedRecords) = 3
                 /\ nextRid = 4
                 /\ buffer = <<>>

\* the run is over and three records went through processJobRemaining
C10_Witness == Quiescent /\ FlushedRecords = {1, 2, 3} /\ jobFlushes >= 1

\* C11: whenever a unit that obtained a scraper from getScraperForSession
\* ends, by returning (success, profile not found) or by an exception of any
\* step, the unit no longer holds the scraper and the pool entry of its
\* session is marked not in use.
C11_ReleasedOnEveryExit ==
    [][\A w \in Workers :
         (wpc[w] \in {"return", "throw"} /\ cpc[w] = "using" /\ wpc'[w] = "idle")
            => /\ cpc'[w] = "idle"
               /\ scraperPool'[SessionId] # NoEntry => ~scraperPool'[SessionId].inUse]_vars

\* the seed's first attempt threw after its profile was counted: the attempt
\* is over, the 'failed' event is in flight and the entry is not in use
C11_Witness ==
    /\ \E h \in Handlers : hpc[h] = "incFailed"
    /\ job.processed = 1
    /\ queue[[username |-> Seed, depth |-> 0]] = [st |-> "waiting", att |-> 1]
    /\ \A w \in Workers : wpc[w] = "idle" /\ cpc[w] = "idle"
    /\ HasEntry(SessionId) /\ ~scraperPool[SessionId].inUse

\* the status changes the state machine of a crawl job allows
StatusMoveAllowed(from, to) ==
    \/ to = from
    \/ from = "none" /\ to = "pending"
    \/ from = "pending" /\ to = "processing"
    \/ from = "processing" /\ to \in {"completed", "failed", "cancelled"}

\* C12: the status of a crawl job only moves pending -> processing -> one of
\* completed, failed, cancelled, and a status of completed, failed or
\* cancelled never changes again.
C12_StatusOnlyForward == [][StatusMoveAllowed(job.status, job'.status)]_vars

\* C13: once every enqueued unit of a job that was not cancelled has finished
\* and the workers' event handlers have run, the job has status completed or
\* failed, whatever the follower and following lists were, overlapping lists
\* included.
C13_TerminalWhenAllFinished == Quiescent => job.status \in {"completed", "failed"}

\* the child units ever added to the scrape queue for the job
ChildUnits == {u \in Units : u.depth > 0 /\ queue[u].st # "none"}

\* a unit is between its first $inc of totalProfiles and addBulkScrapeJobs
MidExpansion == \E w \in Workers : wpc[w] \in {"following", "enqueue"}

\* C20: an expansion grows totalProfiles by exactly the number of child units
\* it adds to the queue, so that outside an expansion totalProfiles is 1 plus
\* the number of child units ever enqueued for the job.
C20_TotalMatchesEnqueued ==
    (job.status # "none" /\ ~MidExpansion) => job.total = 1 + Cardinality(ChildUnits)

\* C14: at the step in which checkAndCompleteJob writes the terminal status
\* of a job, the analysis buffer holds no record of that job, also when
\* another drain held the buffer lock while the job completed.
C14_NoneLeftAtCompletion ==
    [][\A h \in Handlers :
         (hpc[h] = "flush" /\ hpc'[h] = "idle") => JobProfilesOf(buffer', JobId) = <<>>]_vars

\* C15: a caller of acquireSessionLock is granted the lock of a session only
\* when every caller that called before it for that session has been granted
\* the lock and has released it: the caller that goes on is the first of
\* those that have not released yet.
C15_GrantedInCallOrder ==
    [][\A c \in Callers :
         (cpc[c] \in {"getLock", "closeLock"} /\ cpc'[c] # cpc[c])
            => Head(lockQueue[csess[c]]) = c]_vars

\* the callers between the grant of the session lock and their release of it
LockHolders(s) == {c \in Callers : csess[c] = s /\ cpc[c] \in {"getSession", "init", "closing"}}

\* C16: at most one caller holds the lock of a session at any time, whatever
\* getScraperForSession, closeScraperForSession, closeAllScrapers and the
\* sweep do to the lock map.
C16_OneLockHolder == \A s \in Sessions : Cardinality(LockHolders(s)) <= 1

\* the drain calls inside the critical section: the lock was acquired and
\* releaseLock has not run yet
InCriticalSection == {d \in AllDrainers : hasLock[d] /\ dpc[d] \in {"pop", "range", "exec", "release"}}

\* C17: at most one drain (flushBuffer or flushBufferForJob) is inside its
\* critical section at any time, also when a drain outlives the expiry of the
\* buffer lock and deletes the lock key on its way out.
C17_OneDrainInside == Cardinality(InCriticalSection) <= 1

\* the changes of the stored status of an auth job the state machine allows;
\* the record coming into being as pending and its expiry are no changes of a
\* stored status
AuthMoveAllowed(from, to) ==
    \/ to = from
    \/ from = "absent" /\ to = "pending"
    \/ to = "absent"
    \/ from = "pending" /\ to = "processing"
    \/ from = "processing" /\ to \in {"waiting_2fa", "completed", "failed"}
    \/ from = "waiting_2fa" /\ to = "processing"

\* C18: the stored status of an auth job changes only pending -> processing,
\* processing -> waiting_2fa, completed or failed, and waiting_2fa ->
\* processing by a verify-2fa job; submitting a code through addAuthJob
\* changes no status.
C18_AuthStatusMoves ==
    [][\A a \in AuthIds : AuthMoveAllowed(authState[a].status, authState'[a].status)]_vars

C21_FailedUnlessBelowTotal ==
    [][\A h \in Handlers :
          hpc[h] = "flush" /\ hpc'[h] = "idle" =>
              job'.status = IF hsnap[h].failed < hsnap[h].total THEN "completed" ELSE "failed"]_vars

\* C22: when the cleanup timer of a pending second-factor login fires with
\* the handle still unclaimed, the callback closes the handle and the auth
\* job's stored status becomes failed.
C22_CleanupMarksFailed ==
    [][\A a \in AuthIds :
          (timerCb[a] = "closing" /\ timerCb'[a] = "idle" /\ a \notin vstarted)
              => ~scraperOpen'[a] /\ authState'[a].status = "failed"]_vars

\* the worker is inside scraper.verify2FA for the handle of a
Verifying(a) == ajob = a /\ apc = "v_verifying"

\* C23: a verify-2fa job that found a pending handle has disarmed the
\* handle's cleanup timer when it submits the code, and the cleanup callback
\* never closes a handle while a verification on it is in progress.
C23_DisarmedBeforeSubmit ==
    [][\A a \in AuthIds :
          /\ (ajob = a /\ apc = "v_verify" /\ apc' = "v_verifying") => cleanupTimers[a] = "none"
          /\ Verifying(a) => ~(scraperOpen[a] /\ ~scraperOpen'[a])]_vars

\* C24: a verify-2fa job for an id without an entry in pendingAuthSessions
\* writes status failed, "2FA session expired", when a state record exists
\* and writes nothing when none exists; it saves no session and leaves
\* pendingAuthSessions, the scrapers and cleanupTimers as they are.
C24_ExpiredTouchesStatusOnly ==
    [][\A a \in AuthIds :
          (/\ ajob = a
           /\ \/ apc = "v_lookup" /\ apc' = "x_get"
              \/ apc \in {"x_get", "x_set"} /\ apc' # apc)
          => /\ savedSessions' = savedSessions
             /\ pendingAuthSessions' = pendingAuthSessions
             /\ scraperOpen' = scraperOpen
             /\ cleanupTimers' = cleanupTimers
             /\ (apc = "x_get" /\ authState[a] # Absent) => apc' = "x_set"
             /\ (apc = "x_get" /\ authState[a] = Absent) => apc' = "idle" /\ authState' = authState
             /\ apc = "x_set" => authState'[a] = [status |-> "failed", err |-> "expired"]]_vars

\* a verify-2fa job for a login that failed outright has ended as expired
C24_Witness ==
    \E a \in AuthIds :
        /\ verdict[a].out = "expired" /\ ~verdict[a].after /\ a \notin lapsed
        /\ authState[a] = [status |-> "failed", err |-> "expired"]
        /\ ~pendingAuthSessions[a] /\ a \notin savedSessions
        /\ apc = "idle"

\* C25: a call of getScraperForSession that found the pooled handle busy
\* retries a bounded number of times only: it returns in the end (a handle
\* or none), also when the holder never releases the handle. Stated for
\* the runs in which the pool can still create a handle.
C25_BusyCallReturns ==
    \A c \in Workers :
        (cpc[c] = "retry") ~> (cpc[c] \in {"using", "idle"} \/ nextHandle > MaxHandles)

\* C26: when getSession reports no valid credentials for a session without
\* a pool entry, getScraperForSession returns none: it adds no entry, creates
\* no handle and releases the session lock, so that the caller queued behind
\* it, or the next caller, is not blocked by it.
C26_NoSessionReleasesLock ==
    [][\A c \in Workers :
          (cpc[c] = "getSession" /\ cpc'[c] = "idle")
          => /\ scraperPool' = scraperPool
             /\ openHandles' = openHandles /\ nextHandle' = nextHandle
             /\ cheld'[c] = NoHandle
             /\ \A v \in Callers : lockPred'[v] # c
             /\ \A s \in Sessions : sessionLocks'[s] # c
             /\ \A s \in Sessions : \A i \in 1..Len(lockQueue'[s]) : lockQueue'[s][i] # c]_vars

\* the first attempt of a unit threw because getScraperForSession returned
\* none, leaving no entry and no handle, and the unit's next attempt has been
\* granted the session lock and is looking the session up again
C26_Witness ==
    \E w \in Workers :
        /\ wpc[w] = "scraper" /\ queue[wunit[w]].att >= 1
        /\ cpc[w] = "getSession"
        /\ ~HasEntry(SessionId) /\ openHandles = {} /\ nextHandle = 1

\* C27: a unit that fails because getScraperForSession returned none is
\* failed at once: the queue does not retry it.
C27_NoSessionNotRetried ==
    [][\A w \in Workers :
          (wpc[w] = "throw" /\ cpc[w] = "idle" /\ wpc'[w] = "idle")
              => queue'[wunit[w]].st = "failed"]_vars

\* the seed's unit, the only unit of a job none of whose attempts got as far
\* as queueing a child
SeedUnit == [username |-> Seed, depth |-> 0]

\* the seed has used up its attempts, nothing else was queued and every
\* event has been handled
SeedExhausted ==
    /\ queue[SeedUnit].st = "failed"
    /\ \A u \in Units \ {SeedUnit} : queue[u].st = "none"
    /\ \A h \in Handlers : hpc[h] = "idle"

\* C28: a unit whose every attempt throws adds exactly 1 to failedProfiles
\* in total, and to processedProfiles and totalProfiles no more than a
\* single attempt adds (1 and the lengths of its two lists).
C28_ExhaustedCountsOnce ==
    SeedExhausted =>
        /\ job.failed = 1
        /\ job.processed <= 1
        /\ job.total <= 1 + 2

\* C29: a unit for which scrapeProfile returns nothing adds exactly 1 to
\* failedProfiles, appends no record to the buffer, queues no child, leaves
\* processedProfiles and totalProfiles as they are, and is not retried: its
\* attempt returns, the queue marks it completed and never runs it again.
C29_NotFoundFailsOnce ==
    /\ [](queue[SeedUnit].st = "completed" /\ job.processed = 0
            => /\ job.failed = 1 /\ job.total = 1
               /\ buffer = <<>> /\ nextRid = 1
               /\ queue[SeedUnit].att = 0
               /\ \A u \in Units \ {SeedUnit} : queue[u].st = "none")
    /\ [][\A w \in Workers :
            /\ (wpc[w] = "scraper" /\ wpc'[w] = "return")
                 => /\ job' = [job EXCEPT !.failed = @ + 1]
                    /\ buffer' = buffer /\ nextRid' = nextRid
                    /\ queue' = queue /\ childJobs'[w] = <<>>
            /\ (wpc[w] = "return" /\ wpc'[w] = "idle")
                 => queue'[wunit[w]] = [st |-> "completed", att |-> queue[wunit[w]].att]
            /\ \A u \in Units : queue[u].st = "completed" => queue'[u] = queue[u]]_vars

\* the seed's profile was not found: its unit is completed after one attempt
\* and the job has ended as failed with failedProfiles 1 of totalProfiles 1
C29_Witness ==
    /\ queue[SeedUnit] = [st |-> "completed", att |-> 0]
    /\ job = [status |-> "failed", total |-> 1, processed |-> 0, failed |-> 1]
    /\ buffer = <<>>
    /\ \A h \in Handlers : hpc[h] = "idle"

\* C30: no unit is ever queued with a depth above its job's maxDepth, and a
\* unit whose profile is private or whose depth equals maxDepth queues no
\* child and leaves totalProfiles as it is.
C30_DepthBoundRespected ==
    /\ [](\A u \in Units : queue[u].st # "none" => u.depth <= opts.maxDepth)
    /\ [][\A w \in Workers :
            (/\ wpc[w] \in {"progress", "return"} /\ wpc'[w] # wpc[w]
             /\ wpriv[w] \/ wunit[w].depth = opts.maxDepth)
            => /\ wpc'[w] \in {"return", "idle"}
               /\ job'.total = job.total
               /\ \A u \in Units : queue[u].st = "none" => queue'[u].st = "none"]_vars

\* a private seed below the depth bound, with both lists asked for, is about
\* to return: it was counted as processed, totalProfiles is still 1 and no
\* child is queued
C30_Witness ==
    \E w \in Workers :
        /\ wpc[w] = "return" /\ wunit[w] = SeedUnit /\ wpriv[w]
        /\ opts = [maxDepth |-> 1, scrapeFollowers |-> TRUE, scrapeFollowing |-> TRUE]
        /\ job.processed = 1 /\ job.total = 1
        /\ \A u \in Units \ {SeedUnit} : queue[u].st = "none"

\* the username of unit u is already that of a queued or finished unit
Visited(q, u) == \E v \in VisitUnits : v.username = u.username /\ q[v].st # "none"

\* C31: within one job a child unit is queued only for a username that no
\* unit of the job has yet, so that no username is scraped twice by the job,
\* also when a list of a child names the seed.
C31_QueuedOnlyUnvisited ==
    /\ [](\A x \in Users : vscrapes[x] <= 1)
    /\ [][\A u \in VisitUnits :
            (vqueue[u].st = "none" /\ vqueue'[u].st # "none") => ~Visited(vqueue, u)]_vars

\* unit u enters the queue of a job that exists already
Enqueued(u) == job.status # "none" /\ queue[u].st = "none" /\ queue'[u].st # "none"

\* the step is addBulkScrapeJobs of a unit one level above u whose queue
\* state is st
EnqueuedByParent(u, st) ==
    \E w \in Workers :
        /\ wpc[w] = "enqueue" /\ wpc'[w] = "return"
        /\ u.depth = wunit[w].depth + 1
        /\ queue[wunit[w]].st = st

\* C32 as stated: a child unit is queued only after its parent unit has
\* completed, and its depth is its parent's depth plus one.
C32_AfterParentCompleted ==
    [][\A u \in Units : Enqueued(u) => EnqueuedByParent(u, "completed")]_vars

\* C32 amended: a child unit is queued only by the running attempt of its
\* parent, as the attempt's last step before it returns, so the parent is
\* still active and completes afterwards; the child's depth is its parent's
\* depth plus one.
C32_ByActiveParent ==
    [][\A u \in Units : Enqueued(u) => EnqueuedByParent(u, "active")]_vars

\* the seed's attempt has queued a child at depth 1 and has not returned yet
C32_Witness ==
    \E w \in Workers, u \in Units :
        /\ wpc[w] = "return" /\ wunit[w] = SeedUnit /\ queue[SeedUnit].st = "active"
        /\ u.depth = 1 /\ queue[u].st = "waiting"

\* C33: when the update of one record's analysis result fails, a call of
\* processBatch or processJobRemaining still writes the results of all the
\* other records of its batch and still makes the bulk embedding call for
\* the whole batch.
C33_PartialFailureGoesOn ==
    \A d \in Drainers :
        (bpc[d] = "return" /\ Len(bufferedProfiles[d]) > 0) =>
            /\ persisted[d] = RidsOf(bufferedProfiles[d]) \ updateErrors[d]
            /\ embeddingCalls[d] = 1
            /\ RidsOf(embeddingData[d]) = RidsOf(bufferedProfiles[d])

\* a call about to return after one of its updates failed: another record's
\* result was written and the embedding call covered the whole batch
C33_Witness ==
    \E d \in Drainers :
        /\ bpc[d] = "return" /\ Len(bufferedProfiles[d]) >= 2
        /\ updateErrors[d] # {} /\ persisted[d] # {}
        /\ embeddingCalls[d] = 1

\* C34: the sweep closes and removes only entries that are idle and older
\* than the age threshold, never an entry whose busy flag is set, and so
\* never a handle that a worker was handed and still holds. (A step is a run
\* of the sweep when entries leave the pool and no caller and no
\* closeAllScrapers moves.)
C34_SweepSparesHeld ==
    [][\A s \in Sessions :
          (HasEntry(s) /\ scraperPool'[s] = NoEntry /\ UNCHANGED <<cpc, closeAll>>) =>
              /\ ~scraperPool[s].inUse /\ scraperPool[s].aged
              /\ \A c \in Workers : ~(cpc[c] = "using" /\ cheld[c] = scraperPool[s].scraper)]_vars
\* C35: releaseScraperForSession changes only the busy flag and the last-used
\* time of the entry of the caller's session: the handle stays open and in
\* its entry, no other session's entry changes and no lock changes; with no
\* entry for the session the pool is left as it is. (Only a release takes a
\* worker from "using" to "idle".)
C35_ReleaseTouchesOwnEntry ==
    [][\A c \in Workers :
          (cpc[c] = "using" /\ cpc'[c] = "idle") =>
              /\ UNCHANGED <<openHandles, sessionLocks, lockPred, lockQueue, nextHandle>>
              /\ \A s \in Sessions \ {csess[c]} : scraperPool'[s] = scraperPool[s]
              /\ IF HasEntry(csess[c])
                 THEN /\ scraperPool'[csess[c]].scraper = scraperPool[csess[c]].scraper
                      /\ ~scraperPool'[csess[c]].inUse
                 ELSE scraperPool' = scraperPool]_vars

\* one session's entry is idle after a release, its handle open, while the
\* other session's entry is busy and held
C35_Witness ==
    \E s, t \in Sessions :
        /\ s # t
        /\ HasEntry(s) /\ ~scraperPool[s].inUse /\ scraperPool[s].scraper \in openHandles
        /\ HasEntry(t) /\ scraperPool[t].inUse /\ Holders(t) # {}

\* the records of s are in append order: their ids grow along the list
InAppendOrder(s) == \A i, k \in 1..Len(s) : i < k => s[i].rid < s[k].rid

\* C36: drains keep FIFO order. A flushBuffer(n) that got the lock returns
\* records in append order, all of them older than what it leaves in the
\* buffer, and stops short of n only on an empty buffer; a flushBufferForJob(j)
\* that got the lock returns records of j in append order; and the records
\* left in the buffer stay in append order.
C36_DrainsKeepFifo ==
    /\ [](InAppendOrder(buffer))
    /\ [](\A d \in Drainers :
             (dpc[d] = "done" /\ hasLock[d]) =>
                 /\ InAppendOrder(dgot[d])
                 /\ dop[d].kind = "forJob" =>
                       \A i \in 1..Len(dgot[d]) : dgot[d][i].jobId = dop[d].job
                 /\ dop[d].kind = "upTo" =>
                       \A i \in 1..Len(dgot[d]), k \in 1..Len(buffer) :
                           dgot[d][i].rid < buffer[k].rid)
    /\ [][\A d \in Drainers :
             (dpc[d] = "pop" /\ dpc'[d] = "release") =>
                 (Len(dgot[d]) = dop[d].n \/ buffer = <<>>)]_vars

\* C37: checkAndCompleteJob never writes completed or failed while a unit of
\* the job that may still enqueue children (its depth is below maxDepth) is
\* queued or in flight, and so not between such a unit's increment of
\* processedProfiles and its increment of totalProfiles.
C37_NoTerminalBeforeExpansion ==
    [][(job.status \notin {"completed", "failed"} /\ job'.status \in {"completed", "failed"}) =>
          \A u \in Units :
              queue[u].st \in {"waiting", "active"} => u.depth >= opts.maxDepth]_vars

\* C38: whenever the auth worker is idle, every open browser handle is
\* stored in the pending registry, and every entry of the pending registry
\* holds an open handle and has a cleanup timer, armed or just fired with its
\* callback closing the handle.
C38_IdleHandlesRegistered ==
    apc = "idle" =>
        \A a \in AuthIds :
            /\ scraperOpen[a] => pendingAuthSessions[a]
            /\ pendingAuthSessions[a] => (scraperOpen[a] /\ cleanupTimers[a] # "none")

\* C39: a session never has more than one crawl job in status pending or
\* processing, whatever create requests, cancellations and unit executions
\* have run; and a create request that found an active job creates no job
\* and enqueues no unit.
C39_OneActiveJobPerSession ==
    /\ [](Cardinality(ActiveJobs) <= 1)
    /\ [][\A r \in Requesters :
             (rpc[r] = "conflict" /\ rpc'[r] = "idle") =>
                 \A j \in Jobs : /\ sjobs[j] = "none" => sjobs'[j] = "none"
                                 /\ sunit'[j] = sunit[j]]_vars

\* C40: a second-factor code submitted for an auth job in status waiting_2fa
\* is processed by the worker, so the status leaves pending for completed,
\* failed or waiting_2fa. The worker processes only jobs of the queue and
\* nothing but the submission adds one, so the submission itself has to leave
\* a waiting verify-2fa job for the id in the queue.
C40_SubmittedCodeIsQueued ==
    [][\A a \in AuthIds :
          (authState[a].status = "waiting_2fa" /\ submits' # submits
              /\ authState'[a].status = "pending") =>
                 (authQueue'[a].st = "waiting" /\ authQueue'[a].type = "verify-2fa")]_vars

====
